---- MODULE Spec2Model ----
(***************************************************************************)
(* The site build pipeline of the static blog generator: the Post and Tag  *)
(* registries, the memoised accessors, Tag and Index discovery and         *)
(* ordering, and the render pass with its output files.                    *)
(*                                                                         *)
(* Text is a sequence of one-character strings, a path a sequence of       *)
(* components (each a text), so that names, stems and suffixes are         *)
(* computed the way pathlib and str compute them.                          *)
(***************************************************************************)
EXTENDS Integers, Sequences, FiniteSets, TLC

\* ---------------------------------------------------------------- bounds

\* author dates of the commits in the version-control history: 1..MaxDate
MaxDate == 3
\* how many Index objects one process constructs
MaxIndex == 2
\* how many accessor calls the driver makes besides the build
MaxCalls == 2
\* how many pieces the texts handed to replace_markdown_links are made of
MaxPieces == 4
\* how many characters a tag folder's name has at most
MaxName == 5
MaxCells == 3      \* cells of a notebook document
MaxTokens == 3     \* tokens drawn before the last construction of a post

\* ------------------------------------------------------------ text, paths

Range(f) == {f[x] : x \in DOMAIN f}

\* code point order of the characters that occur in the modelled names
Ord(c) ==
    CASE c = " " -> 32 [] c = "(" -> 40 [] c = ")" -> 41 [] c = "." -> 46
      [] c = "/" -> 47 [] c = "a" -> 97 [] c = "b" -> 98 [] c = "c" -> 99
      [] c = "d" -> 100 [] c = "g" -> 103 [] c = "h" -> 104 [] c = "i" -> 105
      [] c = "l" -> 108 [] c = "m" -> 109 [] c = "n" -> 110 [] c = "o" -> 111
      [] c = "p" -> 112 [] c = "r" -> 114 [] c = "s" -> 115 [] c = "t" -> 116
      [] c = "u" -> 117 [] c = "x" -> 120 [] c = "y" -> 121
      [] OTHER -> 255

\* str.__lt__: lexicographic by code point, a proper prefix is smaller
RECURSIVE StrLess(_, _)
StrLess(a, b) ==
    IF b = <<>> THEN FALSE
    ELSE IF a = <<>> THEN TRUE
    ELSE IF Ord(Head(a)) # Ord(Head(b)) THEN Ord(Head(a)) < Ord(Head(b))
    ELSE StrLess(Tail(a), Tail(b))

\* str.find / str.rfind of one character, 1-based, 0 when absent
RECURSIVE FindFrom(_, _, _)
FindFrom(s, c, i) ==
    IF i > Len(s) THEN 0 ELSE IF s[i] = c THEN i ELSE FindFrom(s, c, i + 1)

Find(s, c) == FindFrom(s, c, 1)

RECURSIVE RFindFrom(_, _, _)
RFindFrom(s, c, i) ==
    IF i < 1 THEN 0 ELSE IF s[i] = c THEN i ELSE RFindFrom(s, c, i - 1)

RFind(s, c) == RFindFrom(s, c, Len(s))

\* str.strip(): white space goes from both ends
IsSpace(c) == c \in {" ", "\n", "\t"}

RECURSIVE LStrip(_)
LStrip(s) == IF s # <<>> /\ IsSpace(Head(s)) THEN LStrip(Tail(s)) ELSE s

RECURSIVE RStrip(_)
RStrip(s) ==
    IF s # <<>> /\ IsSpace(s[Len(s)]) THEN RStrip(SubSeq(s, 1, Len(s) - 1)) ELSE s

Strip(s) == RStrip(LStrip(s))

\* s.split(c)[0]
BeforeFirst(s, c) == IF Find(s, c) = 0 THEN s ELSE SubSeq(s, 1, Find(s, c) - 1)

\* the text after the first c (empty when c is absent)
AfterFirst(s, c) == IF Find(s, c) = 0 THEN <<>> ELSE SubSeq(s, Find(s, c) + 1, Len(s))

\* pathlib: PurePath.suffix / PurePath.stem of the final component
Suffix(name) ==
    LET i == RFind(name, ".")
    IN  IF 1 < i /\ i < Len(name) THEN SubSeq(name, i, Len(name)) ELSE <<>>

Stem(name) ==
    LET i == RFind(name, ".")
    IN  IF 1 < i /\ i < Len(name) THEN SubSeq(name, 1, i - 1) ELSE name

Last(p) == p[Len(p)]

\* path.relative_to(base) for a one-component base: it raises ValueError unless
\* IsRelativeTo(path, base)
IsRelativeTo(path, base) == Len(path) >= 1 /\ path[1] = base
RelativeTo(path, base) == Tail(path)

HTMLDIR == <<"h","t","m","l">>
TAGDIR == <<"t","a","g","s">>
POSTDIR == <<"p","o","s","t","s">>
STATICDIR == <<"s","t","a","t","i","c">>

\* the class a file suffix is dispatched to; "none" for an unknown suffix
EXTS(suffix) ==
    CASE suffix = <<".","m","d">> -> "MarkdownPost"
      [] suffix = <<".","i","p","y","n","b">> -> "NotebookPost"
      [] suffix = <<".","h","t","m","l">> -> "HtmlPost"
      [] OTHER -> "none"


\* ------------------------------------------------------- the source tree

A_MD == <<"a",".","m","d">>
B_IPYNB == <<"b",".","i","p","y","n","b">>
A_HTML == <<"a",".","h","t","m","l">>
C_MD == <<"c",".","m","d">>
C_HTML == <<"c",".","h","t","m","l">>
N_TXT == <<"n",".","t","x","t">>
SUB == <<"s","u","b">>
PY_A == <<"p","y"," ","(","a",")">>
PY_B == <<"p","y"," ","(","b",")">>
RS == <<"r","s">>

\* posts in the posts folder (P5 has the stem of P1) and one in a subfolder of it
\* (with the stem of P3), which only a link in a tag folder leads to
P1 == "posts/a.md"
P2 == "posts/b.ipynb"
P3 == "posts/c.html"
P4 == "posts/sub/c.md"
P5 == "posts/a.html"

\* tag folders "py (a)", "py (b)" (the same short name) and "rs"
T1 == "tags/py (a)"
T2 == "tags/py (b)"
T3 == "tags/rs"

\* what else the folders hold: the link to the static folder, the subfolder, and
\* files that are no posts
POSTS_STATIC == "posts/static"
POSTS_SUB == "posts/sub"
POSTS_TXT == "posts/n.txt"
TAGS_TXT == "tags/n.txt"
TagTxt(t) ==
    CASE t = T1 -> "tags/py (a)/n.txt"
      [] t = T2 -> "tags/py (b)/n.txt"
      [] t = T3 -> "tags/rs/n.txt"

\* Path(p).parts of the paths of the tree, each component as text
Parts(p) ==
    CASE p = P1 -> <<POSTDIR, A_MD>>
      [] p = P2 -> <<POSTDIR, B_IPYNB>>
      [] p = P3 -> <<POSTDIR, C_HTML>>
      [] p = P5 -> <<POSTDIR, A_HTML>>
      [] p = P4 -> <<POSTDIR, SUB, C_MD>>
      [] p = T1 -> <<TAGDIR, PY_A>>
      [] p = T2 -> <<TAGDIR, PY_B>>
      [] p = T3 -> <<TAGDIR, RS>>
      [] p = POSTS_STATIC -> <<POSTDIR, STATICDIR>>
      [] p = POSTS_SUB -> <<POSTDIR, SUB>>
      [] p = POSTS_TXT -> <<POSTDIR, N_TXT>>
      [] p = TAGS_TXT -> <<TAGDIR, N_TXT>>
      [] p = TagTxt(T1) -> <<TAGDIR, PY_A, N_TXT>>
      [] p = TagTxt(T2) -> <<TAGDIR, PY_B, N_TXT>>
      [] p = TagTxt(T3) -> <<TAGDIR, RS, N_TXT>>

\* str(path) and Path(text): join with "/", split at "/" dropping empty components
RECURSIVE PathStr(_)
PathStr(p) ==
    IF p = <<>> THEN <<>>
    ELSE IF Head(p) = <<>> THEN PathStr(Tail(p))
    ELSE IF PathStr(Tail(p)) = <<>> THEN Head(p)
    ELSE Head(p) \o <<"/">> \o PathStr(Tail(p))

RECURSIVE SplitAt(_, _)
SplitAt(s, i) ==
    IF s = <<>> THEN <<>>
    ELSE IF i = 0 THEN <<s>>
    ELSE IF i = 1 THEN SplitAt(Tail(s), Find(Tail(s), "/"))
    ELSE <<SubSeq(s, 1, i - 1)>> \o
         SplitAt(SubSeq(s, i + 1, Len(s)), Find(SubSeq(s, i + 1, Len(s)), "/"))

SplitPath(s) == SplitAt(s, Find(s, "/"))

\* --------------------------------------------------------------- sorting

\* sort keys are pairs <<integer, text>>, compared as Python compares tuples
KeyLess(a, b) == a[1] < b[1] \/ (a[1] = b[1] /\ StrLess(a[2], b[2]))

Precedes(ka, kb, reverse) == IF reverse THEN KeyLess(kb, ka) ELSE KeyLess(ka, kb)

\* x goes in front of the first element it precedes: equal keys keep their order
RECURSIVE Insert(_, _, _, _)
Insert(x, seq, key, reverse) ==
    IF seq = <<>> THEN <<x>>
    ELSE IF Precedes(key[x], key[Head(seq)], reverse) THEN <<x>> \o seq
    ELSE <<Head(seq)>> \o Insert(x, Tail(seq), key, reverse)

RECURSIVE SortInto(_, _, _, _)
SortInto(done, seq, key, reverse) ==
    IF seq = <<>> THEN done
    ELSE SortInto(Insert(Head(seq), done, key, reverse), Tail(seq), key, reverse)

Reverse(seq) == [i \in 1..Len(seq) |-> seq[Len(seq) + 1 - i]]

\* sorted(seq, key=..., reverse=...): stable, also with reverse=True
sorted(seq, key, reverse) == SortInto(<<>>, seq, key, reverse)

\* ------------------------------------------------------- markdown links

\* the first position at or after i where "](" starts, 0 when there is none
RECURSIVE FindLink(_, _)
FindLink(text, i) ==
    IF i >= Len(text) THEN 0
    ELSE IF text[i] = "]" /\ text[i + 1] = "(" THEN i
    ELSE FindLink(text, i + 1)

\* content.split("](")
RECURSIVE SplitLinks(_, _)
SplitLinks(text, i) ==
    IF i = 0 THEN <<text>>
    ELSE <<SubSeq(text, 1, i - 1)>> \o
         SplitLinks(SubSeq(text, i + 2, Len(text)), FindLink(SubSeq(text, i + 2, Len(text)), 1))

\* "](".join(parts)
RECURSIVE JoinLinks(_)
JoinLinks(parts) ==
    IF Len(parts) = 1 THEN parts[1]
    ELSE parts[1] \o <<"]", "(">> \o JoinLinks(Tail(parts))

StartsWith(text, prefix) ==
    Len(text) >= Len(prefix) /\ SubSeq(text, 1, Len(prefix)) = prefix

HTTP == <<"h","t","t","p",":","/","/">>
HTTPS == <<"h","t","t","p","s",":","/","/">>

\* the targets the loop skips
IsKept(target) ==
    StartsWith(target, HTTP) \/ StartsWith(target, HTTPS) \/ StartsWith(target, STATICDIR)

\* Path(text).stem: the stem of the last component, "." components and empty ones
\* apart
PathStemOf(comps) == IF comps = <<>> THEN <<>> ELSE Stem(comps[Len(comps)])
PathStem(text) == PathStemOf(SelectSeq(SplitPath(text), LAMBDA c : c # <<".">>))

\* f"/{Path(smallparts[0]).stem}.html"
LinkTo(target) == <<"/">> \o PathStem(target) \o <<".","h","t","m","l">>

\* one part after a "](": smallparts = part.split(")"); smallparts[0] is replaced
\* unless it is kept; ")".join(smallparts)
ReplacePart(part) ==
    IF IsKept(BeforeFirst(part, ")")) THEN part
    ELSE LinkTo(BeforeFirst(part, ")")) \o SubSeq(part, Len(BeforeFirst(part, ")")) + 1, Len(part))

ReplaceParts(parts) ==
    [i \in 1..Len(parts) |-> IF i = 1 THEN parts[1] ELSE ReplacePart(parts[i])]

replace_markdown_links(content) ==
    JoinLinks(ReplaceParts(SplitLinks(content, FindLink(content, 1))))

\* ------------------------------------------------------------------ state

VARIABLES
    fs,            \* the source tree and its history, fixed while the process runs
    Post_posts,    \* Post._posts: path -> Post
    Tag_tags,      \* Tag._tags: path -> Tag
    heap,          \* every object allocated so far
    post_tags,     \* post.tags of each Post
    post_lines,    \* post.lines of each Post
    notebook,      \* json, mathjax, plotly_plots, vega_plots of each NotebookPost
    tokens,        \* number of secrets.token_hex(8) values drawn so far
    tag_posts,     \* tag.posts of each Tag
    tag_done,      \* the Tags whose __init__ has returned
    index_posts,   \* index.posts of each Index
    index_tags,    \* index.tags of each Index
    memo,          \* the lru caches: <<function, self>> -> value
    ncomp,         \* how often each memoised function body has run
    clock,         \* number of datetime.utcnow() readings taken so far
    html,          \* the files under HTMLDIR: path -> what was written
    outdirs,       \* the tag output directories made under HTMLDIR/TAGDIR
    log,           \* the writes of the operation just performed, in order
    trace,         \* its template renderings and file openings, in order
    ret,           \* the operation just performed: what was called, on what, its value
    calls,         \* number of accessor calls the driver has made
    err            \* the exception that ended the process, "none" while it runs

vars == <<fs, Post_posts, Tag_tags, heap, post_tags, post_lines, notebook, tokens,
          tag_posts, tag_done,
          index_posts, index_tags, memo, ncomp, clock, html, outdirs, log, trace,
          ret, calls, err>>

\* the mutable program state as one record, threaded through the operations
Cur ==
    [Post_posts |-> Post_posts, Tag_tags |-> Tag_tags, heap |-> heap,
     post_tags |-> post_tags, post_lines |-> post_lines, notebook |-> notebook,
     tokens |-> tokens, tag_posts |-> tag_posts, tag_done |-> tag_done,
     index_posts |-> index_posts, index_tags |-> index_tags,
     memo |-> memo, ncomp |-> ncomp, clock |-> clock,
     html |-> html, outdirs |-> outdirs, log |-> log, trace |-> trace, err |-> err]

Commit(s) ==
    /\ Post_posts' = s.Post_posts
    /\ Tag_tags' = s.Tag_tags
    /\ heap' = s.heap
    /\ post_tags' = s.post_tags
    /\ post_lines' = s.post_lines
    /\ notebook' = s.notebook
    /\ tokens' = s.tokens
    /\ tag_posts' = s.tag_posts
    /\ tag_done' = s.tag_done
    /\ index_posts' = s.index_posts
    /\ index_tags' = s.index_tags
    /\ memo' = s.memo
    /\ ncomp' = s.ncomp
    /\ clock' = s.clock
    /\ html' = s.html
    /\ outdirs' = s.outdirs
    /\ log' = s.log
    /\ trace' = s.trace
    /\ err' = s.err
    /\ UNCHANGED fs

\* the operation f(self) has returned v, or has raised
Returned(f, self, v) == ret' = [f |-> f, self |-> self, v |-> IF err' = "none" THEN v ELSE 0]

Raise(s, exc) == [s EXCEPT !.err = exc]
Ok(s) == s.err = "none"

\* a fresh object of class cls for path: objects are told apart by a serial number
NewObject(s, cls, path) ==
    <<cls, path, 1 + Cardinality({o \in s.heap : o[1] = cls /\ o[2] = path})>>

PathOf(obj) == obj[2]
ClassOf(obj) == obj[1]
IsPost(obj) == ClassOf(obj) \in {"MarkdownPost", "NotebookPost", "HtmlPost"}


\* ---------------------------------------------------- memoised accessors

PostPriority == 85
TagPriority == 60
IndexPriority == 100
DotHtml == <<".","h","t","m","l">>
NoText == <<>>

\* datetime.utcnow(): later than every commit, and later at every reading
utcnow(s) == MaxDate + 1 + s.clock

\* a commit's author date "%aD" is a local time with a UTC offset; the accessors
\* subtract the offset and drop the zone
ToUtc(commit) == commit.local - commit.off

Key(f, self) == <<f, self>>
Val(s, f, self) == s.memo[Key(f, self)]
Ret(s, v) == [s |-> s, v |-> v]

RECURSIVE Body(_, _, _)
RECURSIVE CallEach(_, _, _)

\* the body of a wrapped function is entered
Count(s, k) == [s EXCEPT !.ncomp = (k :> (IF k \in DOMAIN @ THEN @[k] + 1 ELSE 1)) @@ @]

\* the value a body returned is kept, unless the body raised
Store(r, k) == IF Ok(r.s) THEN [r.s EXCEPT !.memo = (k :> r.v) @@ @] ELSE r.s

\* a function wrapped by a cache that forgets: the body runs at every call
cache_forgetful(s, f, self) == Store(Body(Count(s, Key(f, self)), f, self), Key(f, self))

\* cache = partial(lru_cache, None, True): a call of a wrapped method with a self
\* already in the cache returns the stored value; otherwise the body runs and its
\* value is stored, unless it raises
cache(s, f, self) ==
    IF ~Ok(s) \/ Key(f, self) \in DOMAIN s.memo THEN s
    ELSE Store(Body(Count(s, Key(f, self)), f, self), Key(f, self))

\* f(x) for each x of seq in order, stopping at the first exception
CallEach(s, f, seq) ==
    IF seq = <<>> \/ ~Ok(s) THEN s
    ELSE CallEach(cache(s, f, Head(seq)), f, Tail(seq))

Max(S) == CHOOSE x \in S : \A y \in S : y <= x

\* GitDate without the except clause: the ValueError of strptime("") propagates
GitDate_uncaught(s, self, which) ==
    IF fs.git[PathOf(self)] = <<>> THEN Ret(Raise(s, "ValueError"), 0)
    ELSE Ret(s, ToUtc(IF which = "added" THEN fs.git[PathOf(self)][1]
                      ELSE fs.git[PathOf(self)][Len(fs.git[PathOf(self)])]))

\* Post.utcpublished / Post.utcmodified: the date of the commit that added the file
\* (of the latest commit), or the current time when there is no history
GitDate(s, self, which) ==
    LET history == fs.git[PathOf(self)]
    IN  IF history = <<>>
        THEN Ret([s EXCEPT !.clock = @ + 1], utcnow(s))
        ELSE Ret(s, ToUtc(IF which = "added" THEN history[1] ELSE history[Len(history)]))

\* str.lower() and str.capitalize() on the letters the trees use
LowerChar(c) == CASE c = "A" -> "a" [] c = "J" -> "j" [] c = "O" -> "o" [] OTHER -> c
UpperChar(c) == CASE c = "a" -> "A" [] c = "j" -> "J" [] c = "o" -> "O" [] OTHER -> c
Lower(text) == [i \in 1..Len(text) |-> LowerChar(text[i])]
Capitalize(text) ==
    [i \in 1..Len(text) |-> IF i = 1 THEN UpperChar(text[1]) ELSE LowerChar(text[i])]

Anonymous == <<"A","n","o","n","y","m","o","u","s">>

\* the output of git log --pretty=format:%an%x09: a line per commit, newest first
GitAuthors(history) ==
    IF history = <<>> THEN <<>> ELSE history[Len(history)].an \o <<"\t">>

\* Post.author: the first line of the output, stripped; "Anonymous" when it is empty;
\* lower-cased and capitalised
Author(s, self) ==
    Ret(s, Capitalize(Lower(IF Strip(GitAuthors(fs.git[PathOf(self)])) = <<>>
                            THEN Anonymous
                            ELSE Strip(GitAuthors(fs.git[PathOf(self)])))))

\* sorted(...)[-1] of the dates the calls returned
Newest(s, f, posts) ==
    IF ~Ok(s) THEN Ret(s, 0)
    ELSE IF posts = <<>> THEN Ret(Raise(s, "IndexError"), 0)
    ELSE Ret(s, Max({Val(s, f, posts[i]) : i \in 1..Len(posts)}))

\* sorted(post.utcmodified() for post in self.posts)[-1]
NewestModified(s, posts) ==
    Newest(CallEach(s, "Post.utcmodified", posts), "Post.utcmodified", posts)

\* Tag.name: stem of the folder name up to the first "(", stripped
TagName(path) == Strip(BeforeFirst(Stem(Last(RelativeTo(path, TAGDIR))), "("))

\* Tag.longname: what stands between the first "(" and the next ")" (or "("),
\* stripped; the name when the stem has no "("
TagLongName(path) ==
    LET stem == Stem(Last(RelativeTo(path, TAGDIR)))
    IN  IF Find(stem, "(") = 0 THEN TagName(path)
        ELSE Strip(BeforeFirst(BeforeFirst(AfterFirst(stem, "("), "("), ")"))

\* Post.uri once name() has returned
PostUri(s, self) ==
    IF Ok(s) THEN Ret(s, Val(s, "Post.name", self) \o DotHtml) ELSE Ret(s, NoText)

\* Tag.uri once name() has returned: str(TAGDIR/name) + "/"
TagUri(s, self) == Ret(s, PathStr(<<TAGDIR, Val(s, "Tag.name", self)>>) \o <<"/">>)

\* md2html: the links are replaced, then the text is handed to the converter
\* (pandoc), whose output is not interpreted
md2html(content) == [pandoc |-> replace_markdown_links(content)]

\* "\n".join(lines)
RECURSIVE JoinLines(_)
JoinLines(lines) ==
    IF lines = <<>> THEN <<>>
    ELSE IF Len(lines) = 1 THEN lines[1]
    ELSE lines[1] \o <<"\n">> \o JoinLines(Tail(lines))

\* the loop of Post.summary: each line is stripped and kept, up to the first line
\* that is blank
RECURSIVE SummaryLines(_)
SummaryLines(lines) ==
    IF lines = <<>> \/ Strip(Head(lines)) = <<>> THEN <<>>
    ELSE <<Strip(Head(lines))>> \o SummaryLines(Tail(lines))

\* lines[1:]
Rest(lines) == IF lines = <<>> THEN <<>> ELSE Tail(lines)

\* Post.summary
Summary(s, self) == Ret(s, md2html(JoinLines(SummaryLines(Rest(s.post_lines[self])))))

\* the keys of the two chart families ('plotly' in k, 'vega' in k) and the other keys
PLOTLY == "application/vnd.plotly.v1+json"
VEGA == "application/vnd.vegalite.v4+json"
PNG == "image/png"
PLAIN == "text/plain"

\* what a page shows of a document: an image, a text, a token, a chart
Element(kind, id, spec) == [kind |-> kind, id |-> id, spec |-> spec, license |-> FALSE]

\* what the converter shows of the data of one output: the image if there is one,
\* the plain text otherwise (the chart payloads are not among the formats it shows)
Shown(data) ==
    IF PNG \in DOMAIN data THEN <<data[PNG]>>
    ELSE IF PLAIN \in DOMAIN data THEN data[PLAIN]
    ELSE <<>>

RECURSIVE ShownOutputs(_)
ShownOutputs(outputs) ==
    IF outputs = <<>> THEN <<>>
    ELSE Shown(Head(outputs).data) \o ShownOutputs(Tail(outputs))

RECURSIVE ShownCells(_)
ShownCells(cells) ==
    IF cells = <<>> THEN <<>>
    ELSE ShownOutputs(Head(cells).outputs) \o ShownCells(Tail(cells))

\* ipynb2html: the links are replaced, then the document is handed to the converter
\* (nbconvert): the page has the sources of the cells and what their outputs show
ipynb2html(cells) ==
    [nbconvert |-> [i \in 1..Len(cells) |->
                       [k \in 1..Len(cells[i].source) |->
                           replace_markdown_links(cells[i].source[k])]],
     outputs |-> ShownCells(cells)]

\* Post.content: the lines after the first, converted; HtmlPost.content: the lines
\* after the first as they are; NotebookPost.content: the converted document
Content(s, self) ==
    IF ClassOf(self) = "HtmlPost" THEN Ret(s, JoinLines(Rest(s.post_lines[self])))
    ELSE Ret(s, ipynb2html(s.notebook[self].json))

Body(s, f, self) ==
    CASE f = "Post.priority" -> Ret(s, PostPriority)
      [] f = "Post.author" -> Author(s, self)
      [] f = "Post.summary" -> Summary(s, self)
      [] f = "Post.content" -> Content(s, self)
      [] f = "Post.name" ->
            IF IsRelativeTo(Parts(PathOf(self)), POSTDIR)
            THEN Ret(s, Stem(Last(RelativeTo(Parts(PathOf(self)), POSTDIR))))
            ELSE Ret(Raise(s, "ValueError"), NoText)
      [] f = "Post.ext" -> Ret(s, Suffix(Last(Parts(PathOf(self)))))
      [] f = "Post.uri" -> PostUri(cache(s, "Post.name", self), self)
      [] f = "Post.utcpublished" -> GitDate(s, self, "added")
      [] f = "Post.utcmodified" -> GitDate(s, self, "latest")
      [] f = "Tag.priority" -> Ret(s, TagPriority)
      [] f = "Tag.utcmodified" -> NewestModified(s, s.tag_posts[self])
      [] f = "Tag.num_posts" -> Ret(s, Len(s.tag_posts[self]))
      [] f = "Tag.name" -> Ret(s, TagName(Parts(PathOf(self))))
      [] f = "Tag.longname" ->
            Ret(IF Find(Stem(Last(Parts(PathOf(self)))), "(") = 0
                THEN cache(s, "Tag.name", self) ELSE s,
                TagLongName(Parts(PathOf(self))))
      [] f = "Tag.uri" -> TagUri(cache(s, "Tag.name", self), self)
      [] f = "Index.priority" -> Ret(s, IndexPriority)
      [] f = "Index.utcmodified" -> NewestModified(s, s.index_posts[self])
      [] f = "Index.num_posts" -> Ret(s, Len(s.index_posts[self]))
      [] f = "Index.name" -> Ret(s, <<"i","n","d","e","x">>)
      [] f = "Index.uri" -> Ret(s, <<"i","n","d","e","x">> \o DotHtml)

\* ------------------------------------------------------------- Post, Tag

IsDir(path) == path \in fs.dirs
Alloc(s, self) == [s EXCEPT !.heap = @ \cup {self}]

\* Post.__new__ that never looks into the registry
Post_new_always_fresh(s, cls, path) == NewObject(s, cls, path)

\* Post.__new__: the registered instance of the path, or a fresh object
Post_new(s, cls, path) ==
    IF path \in DOMAIN s.Post_posts THEN s.Post_posts[path]
    ELSE NewObject(s, cls, path)

\* "".join(lines)
RECURSIVE Join(_)
Join(lines) == IF lines = <<>> THEN <<>> ELSE Head(lines) \o Join(Tail(lines))

\* text.split("\n")
RECURSIVE SplitLines(_)
SplitLines(text) ==
    IF Find(text, "\n") = 0 THEN <<text>>
    ELSE <<BeforeFirst(text, "\n")>> \o SplitLines(AfterFirst(text, "\n"))

\* Post.readlines / HtmlPost.readlines: file.read().split("\n"); NotebookPost.readlines
\* before the document is read: []
Post_readlines(self) ==
    IF ClassOf(self) = "HtmlPost" THEN SplitLines(Join(fs.head[PathOf(self)])) ELSE <<>>

\* Post.__init__: nothing for a registered path; otherwise the path is registered,
\* the tag list starts empty and the lines are read
Post_init(s, self, path) ==
    IF path \in DOMAIN s.Post_posts THEN s
    ELSE [s EXCEPT !.Post_posts = (path :> self) @@ @,
                   !.post_tags = (self :> <<>>) @@ @,
                   !.post_lines = (self :> Post_readlines(self)) @@ @]

\* raise RuntimeError(f"could not find title for post '{self.name()}'")
RaiseNoTitle(s) == IF Ok(s) THEN Raise(s, "RuntimeError") ELSE s

\* while not lines[0].strip(): lines = lines[1:]
RECURSIVE DropBlank(_)
DropBlank(lines) ==
    IF lines = <<>> \/ Strip(Head(lines)) # <<>> THEN lines ELSE DropBlank(Tail(lines))

\* while title[0] == " ": title = title[1:]
RECURSIVE DropSpaces(_)
DropSpaces(title) ==
    IF title # <<>> /\ Head(title) = " " THEN DropSpaces(Tail(title)) ELSE title

\* NotebookPost.readlines once the blank lines in front are dropped: lines[0] of an
\* empty list raises IndexError; a first line that is no "# " heading raises the
\* title error, whose message needs name(); otherwise the lines are joined and split
NotebookPost_title(s, self, lines) ==
    IF lines = <<>> THEN Raise(s, "IndexError")
    ELSE IF ~StartsWith(DropSpaces(Head(lines)), <<"#", " ">>)
    THEN RaiseNoTitle(cache(s, "Post.name", self))
    ELSE [s EXCEPT !.post_lines[self] = SplitLines(Join(lines))]

\* self.json["cells"][0]["source"] = lines[1:]
NotebookPost_untitle(s, self, lines) ==
    IF ~Ok(s) THEN s ELSE [s EXCEPT !.notebook[self].json[1].source = Tail(lines)]

NotebookPost_readlines_from(s, self, lines) ==
    NotebookPost_untitle(NotebookPost_title(s, self, lines), self, lines)

\* NotebookPost.readlines at the end of NotebookPost.__init__, on the source of the
\* first cell of the patched document: IndexError when it has no cell
NotebookPost_readlines(s, self) ==
    IF ~Ok(s) THEN s
    ELSE IF s.notebook[self].json = <<>> THEN Raise(s, "IndexError")
    ELSE NotebookPost_readlines_from(s, self, DropBlank(s.notebook[self].json[1].source))

\* a cell of a notebook document
Cell(cell_type, metadata, source, outputs) ==
    [cell_type |-> cell_type, metadata |-> metadata, source |-> source,
     outputs |-> outputs]

\* NotebookPost.readjson: the document of the file, as its list of cells;
\* MarkdownPost.readjson: one markdown cell that holds the lines of the file
readjson(self) ==
    IF ClassOf(self) = "NotebookPost" /\ PathOf(self) \in DOMAIN fs.notebooks
    THEN fs.notebooks[PathOf(self)]
    ELSE <<Cell("markdown", 0, fs.head[PathOf(self)], <<>>)>>

\* _needs_mathjax: a markdown cell with $...$ in its source (\begin{align} is not
\* among the modelled texts)
needs_mathjax(cells) ==
    \E i \in 1..Len(cells) :
        /\ cells[i].cell_type = "markdown"
        /\ Cardinality({k \in 1..Len(Join(cells[i].source)) :
                            Join(cells[i].source)[k] = "$"}) >= 2

\* the lines put around the source of a raw cell; "fence" is the run of three
\* backquotes, kept as one element
FENCE_OPEN == <<"\n","fence","p","y","t","h","o","n","\n">>
FENCE_CLOSE == <<"\n","fence","\n">>

\* _replace_raw_cell_by_markdown_cell
replace_raw_cell_by_markdown_cell(cells) ==
    [i \in 1..Len(cells) |->
        IF cells[i].cell_type = "raw"
        THEN [cells[i] EXCEPT !.cell_type = "markdown",
                              !.source = <<FENCE_OPEN>> \o @ \o <<FENCE_CLOSE>>]
        ELSE cells[i]]

\* a code cell whose first source line, stripped, is the marker #!
IsMarked(cell) ==
    cell.cell_type = "code" /\ Strip(cell.source[1]) = <<"#","!">>

\* the document while NotebookPost.__init__ patches it: the cells, the two plot
\* maps, the number of tokens drawn, and the exception raised, if any
Patching(cells, count) ==
    [cells |-> cells, mathjax |-> needs_mathjax(cells), plotly_plots |-> <<>>,
     vega_plots |-> <<>>, tokens |-> count, err |-> "none"]

\* _delete_marked_codecells: source[0] of a code cell without source lines raises
\* IndexError in the loop that collects the indexes; otherwise the marked cells are
\* deleted, from the last to the first
delete_marked_codecells(nb) ==
    IF \E i \in 1..Len(nb.cells) : nb.cells[i].cell_type = "code" /\ nb.cells[i].source = <<>>
    THEN [nb EXCEPT !.err = "IndexError"]
    ELSE [nb EXCEPT !.cells = SelectSeq(@, LAMBDA c : ~IsMarked(c))]

\* keys = [k for k in data if ('plotly' in k or 'vega' in k)]
PlotKeys(data) == SelectSeq(<<PLOTLY, VEGA>>, LAMBDA k : k \in DOMAIN data)

\* "{{ %s }}" % id, for the n-th id drawn: every id is new
Token(n) == Element("token", n, 0)

\* the tokens of the keys of one output, and the entries they get in a plot map:
\* the chart markup formatted with the id and the payload
TokensFor(keys, count) == [n \in 1..Len(keys) |-> Token(count + n)]
PlotsFor(data, keys, count, family) ==
    [tok \in {Token(count + n) : n \in {m \in 1..Len(keys) : keys[m] = family}} |->
        Element(family, tok.id, data[family])]

\* del data['image/png']; data['text/plain'] = the tokens, one line each
PatchedData(data, toks) ==
    [k \in (DOMAIN data \ {PNG}) \cup {PLAIN} |-> IF k = PLAIN THEN toks ELSE data[k]]

\* one output with plot keys: KeyError when the data have no 'image/png'
PatchPlots(nb, i, j, data, keys) ==
    IF PNG \notin DOMAIN data THEN [nb EXCEPT !.err = "KeyError"]
    ELSE [nb EXCEPT !.cells[i].outputs[j].data = PatchedData(data, TokensFor(keys, nb.tokens)),
                    !.plotly_plots = PlotsFor(data, keys, nb.tokens, PLOTLY) @@ @,
                    !.vega_plots = PlotsFor(data, keys, nb.tokens, VEGA) @@ @,
                    !.tokens = @ + Len(keys)]

\* one output: nothing without data or without plot keys
PatchOutput(nb, i, j, data) ==
    IF DOMAIN data = {} \/ PlotKeys(data) = <<>> THEN nb
    ELSE PatchPlots(nb, i, j, data, PlotKeys(data))

\* the loops of _patch_json_for_interactive_plots, from output j of cell i on
RECURSIVE patch_json_for_interactive_plots(_, _, _)
patch_json_for_interactive_plots(nb, i, j) ==
    IF nb.err # "none" \/ i > Len(nb.cells) THEN nb
    ELSE IF j > Len(nb.cells[i].outputs)
    THEN patch_json_for_interactive_plots(nb, i + 1, 1)
    ELSE patch_json_for_interactive_plots(
             PatchOutput(nb, i, j, nb.cells[i].outputs[j].data), i, j + 1)

\* what the object has when the patches have ended or raised: the plot maps are
\* assigned when all patches have returned
Patched(s, self, nb) ==
    [json |-> nb.cells, mathjax |-> nb.mathjax,
     plotly_plots |-> IF nb.err = "none" THEN nb.plotly_plots
                      ELSE IF self \in DOMAIN s.notebook THEN s.notebook[self].plotly_plots
                      ELSE <<>>,
     vega_plots |-> IF nb.err = "none" THEN nb.vega_plots
                    ELSE IF self \in DOMAIN s.notebook THEN s.notebook[self].vega_plots
                    ELSE <<>>]

NotebookPost_assign(s, self, nb) ==
    [s EXCEPT !.notebook = (self :> Patched(s, self, nb)) @@ @,
              !.tokens = nb.tokens,
              !.err = nb.err]

\* NotebookPost.__init__ after Post.__init__: the document is read, the math flag
\* set, the raw cells replaced, the marked cells deleted, the plots patched
NotebookPost_patch(s, self) ==
    IF ~Ok(s) THEN s
    ELSE NotebookPost_assign(
             s, self,
             patch_json_for_interactive_plots(
                 delete_marked_codecells(
                     [Patching(readjson(self), s.tokens)
                         EXCEPT !.cells = replace_raw_cell_by_markdown_cell(@)]),
                 1, 1))

\* NotebookPost.__init__ (MarkdownPost inherits it): Post.__init__, then the document
\* is read and patched and the title line checked, also for a registered path
NotebookPost_init(s, self, path) ==
    NotebookPost_readlines(NotebookPost_patch(Post_init(s, self, path), self), self)

\* __init__ of the class on the object __new__ returned
Initialise(s, cls, path, self) ==
    Ret(IF cls = "HtmlPost" THEN Post_init(Alloc(s, self), self, path)
        ELSE NotebookPost_init(Alloc(s, self), self, path),
        self)

\* cls(path): __new__, then __init__ on what it returned
Construct(s, cls, path) == Initialise(s, cls, path, Post_new(s, cls, path))

PostKey(s, S) == [x \in S |-> <<Val(s, "Post.utcpublished", x), NoText>>]
TagKey(s, S) == [x \in S |-> <<0 - Val(s, "Tag.num_posts", x), Val(s, "Tag.name", x)>>]

\* the key function (-x.num_posts(), x.name()) applied to each tag in order
RECURSIVE TagKeys(_, _)
TagKeys(s, seq) ==
    IF seq = <<>> THEN s
    ELSE TagKeys(cache(cache(s, "Tag.num_posts", Head(seq)), "Tag.name", Head(seq)),
                 Tail(seq))

\* a descending sort done as an ascending sort read backwards
SortPosts_backwards(s, posts) == Reverse(sorted(posts, PostKey(s, Range(posts)), FALSE))

\* sorted(posts, key=lambda x: x.utcpublished(), reverse=True), the keys computed
SortPosts(s, posts) == sorted(posts, PostKey(s, Range(posts)), TRUE)

\* sorted(tags, key=lambda x: (-x.num_posts(), x.name())), the keys computed
SortTags(s, tags) == sorted(tags, TagKey(s, Range(tags)), FALSE)

\* the link without post.tags.append(self)
Tag_link_one_way(r, self) ==
    IF ~Ok(r.s) THEN r.s
    ELSE [r.s EXCEPT !.tag_posts[self] = Append(@, r.v)]

\* the link followed by a call of self.num_posts(), while the folder is still read
Tag_link_counting(r, self) ==
    IF ~Ok(r.s) THEN r.s
    ELSE IF r.v \notin DOMAIN r.s.post_tags THEN Raise(r.s, "AttributeError")
    ELSE cache([r.s EXCEPT !.tag_posts[self] = Append(@, r.v),
                           !.post_tags[r.v] = Append(@, self)],
               "Tag.num_posts", self)

\* self.posts.append(post); post.tags.append(self)
Tag_link(r, self) ==
    IF ~Ok(r.s) THEN r.s
    ELSE IF r.v \notin DOMAIN r.s.post_tags THEN Raise(r.s, "AttributeError")
    ELSE [r.s EXCEPT !.tag_posts[self] = Append(@, r.v),
                     !.post_tags[r.v] = Append(@, self)]

\* Tag.__init__, the discovery loop: one entry of the tag folder
Tag_discover_one(s, self, post_path) ==
    IF IsDir(post_path) \/ EXTS(Suffix(Last(Parts(post_path)))) = "none" THEN s
    ELSE Tag_link(Construct(s, EXTS(Suffix(Last(Parts(post_path)))), post_path), self)

RECURSIVE Tag_discover(_, _, _)
Tag_discover(s, self, entries) ==
    IF entries = <<>> \/ ~Ok(s) THEN s
    ELSE Tag_discover(Tag_discover_one(s, self, Head(entries)), self, Tail(entries))

\* the sort of a tag list with the key x.name() alone
Post_sort_tags_by_name(s, post) ==
    [s EXCEPT !.post_tags[post] =
        sorted(@, [x \in Range(@) |-> <<0, Val(s, "Tag.name", x)>>], FALSE)]

\* post.tags = sorted(post.tags, ...), the keys computed
Post_sort_tags(s, post) ==
    IF ~Ok(s) THEN s ELSE [s EXCEPT !.post_tags[post] = SortTags(s, @)]

\* Tag.__init__, the loop that sorts the tag list of every member
RECURSIVE Tag_sort_member_tags(_, _)
Tag_sort_member_tags(s, posts) ==
    IF posts = <<>> \/ ~Ok(s) THEN s
    ELSE Tag_sort_member_tags(
             Post_sort_tags(TagKeys(s, s.post_tags[Head(posts)]), Head(posts)),
             Tail(posts))

\* the sort of the members without reverse=True
Tag_sort_posts_ascending(s, self) ==
    [s EXCEPT !.tag_posts[self] = sorted(@, PostKey(s, Range(@)), FALSE)]

\* self.posts = sorted(self.posts, ...), the keys computed
Tag_sort_posts(s, self) ==
    IF ~Ok(s) THEN s ELSE [s EXCEPT !.tag_posts[self] = SortPosts(s, @)]

Tag_sort_tags(s, self) == Tag_sort_member_tags(s, s.tag_posts[self])

\* os.makedirs(HTMLDIR/TAGDIR/self.name()) and the link to the static folder
Tag_makedirs(s, self) ==
    IF ~Ok(s) THEN s
    ELSE
    [s EXCEPT !.outdirs = @ \cup {Val(s, "Tag.name", self)},
              !.tag_done = @ \cup {self}]

\* Tag.__init__ after the discovery loop: the members are sorted newest first, their
\* tag lists are sorted, the output folder is made and the static folder linked
Tag_finish(s, self) ==
    IF ~Ok(s) THEN s
    ELSE Tag_makedirs(
             cache(Tag_sort_tags(
                       Tag_sort_posts(
                           CallEach(s, "Post.utcpublished", s.tag_posts[self]), self),
                       self),
                   "Tag.name", self),
             self)

Tag_new(s, path) ==
    IF path \in DOMAIN s.Tag_tags THEN s.Tag_tags[path]
    ELSE NewObject(s, "Tag", path)

\* self.posts = []; self._tags[path] = self
Tag_register(s, self, path) ==
    [s EXCEPT !.Tag_tags = (path :> self) @@ @,
              !.tag_posts = (self :> <<>>) @@ @]

\* Tag.__init__
Tag_init(s, self, path) ==
    IF path \in DOMAIN s.Tag_tags THEN s
    ELSE Tag_finish(Tag_discover(Tag_register(s, self, path), self, fs.tagfiles[path]),
                    self)

InitialiseTag(s, path, self) == Ret(Tag_init(Alloc(s, self), self, path), self)

\* Tag(path)
ConstructTag(s, path) == InitialiseTag(s, path, Tag_new(s, path))

\* ------------------------------------------------------------------ Index

\* self.posts.append(post)
Index_add_post(r, self) ==
    IF ~Ok(r.s) THEN r.s ELSE [r.s EXCEPT !.index_posts[self] = Append(@, r.v)]

\* Index.__init__, first loop: one entry of the posts folder
Index_discover_post(s, self, post_path) ==
    IF IsDir(post_path) \/ EXTS(Suffix(Last(Parts(post_path)))) = "none" THEN s
    ELSE Index_add_post(
             Construct(s, EXTS(Suffix(Last(Parts(post_path)))), post_path), self)

RECURSIVE Index_discover_posts(_, _, _)
Index_discover_posts(s, self, entries) ==
    IF entries = <<>> \/ ~Ok(s) THEN s
    ELSE Index_discover_posts(Index_discover_post(s, self, Head(entries)),
                              self, Tail(entries))

\* self.tags.append(tag)
Index_add_tag(r, self) ==
    IF ~Ok(r.s) THEN r.s ELSE [r.s EXCEPT !.index_tags[self] = Append(@, r.v)]

\* Index.__init__, second loop: one entry of the tags folder
Index_discover_tag(s, self, tag_path) ==
    IF ~IsDir(tag_path) THEN s ELSE Index_add_tag(ConstructTag(s, tag_path), self)

RECURSIVE Index_discover_tags(_, _, _)
Index_discover_tags(s, self, entries) ==
    IF entries = <<>> \/ ~Ok(s) THEN s
    ELSE Index_discover_tags(Index_discover_tag(s, self, Head(entries)),
                             self, Tail(entries))

\* the sort of the tags with the key x.name() alone
Index_sort_tags_by_name(s, self) ==
    [s EXCEPT !.index_tags[self] =
        sorted(@, [x \in Range(@) |-> <<0, Val(s, "Tag.name", x)>>], FALSE)]

\* self.tags = sorted(self.tags, ...), the keys computed
Index_sort_tags(s, self) ==
    IF ~Ok(s) THEN s ELSE [s EXCEPT !.index_tags[self] = SortTags(s, @)]

\* self.posts = sorted(self.posts, ...), the keys computed
Index_sort_posts(s, self) ==
    IF ~Ok(s) THEN s ELSE [s EXCEPT !.index_posts[self] = SortPosts(s, @)]

Index_tag_keys(s, self) == TagKeys(s, s.index_tags[self])
Index_post_keys(s, self) == CallEach(s, "Post.utcpublished", s.index_posts[self])

\* Index.__init__, the two sorts that end it
Index_sort(s, self) ==
    IF ~Ok(s) THEN s
    ELSE Index_sort_posts(
             Index_post_keys(Index_sort_tags(Index_tag_keys(s, self), self), self), self)

\* self.posts, self.tags = [], []
Index_register(s, self) ==
    [s EXCEPT !.heap = @ \cup {self},
              !.index_posts = (self :> <<>>) @@ @,
              !.index_tags = (self :> <<>>) @@ @]

Index_init_self(s, self) ==
    Index_sort(
        Index_discover_tags(
            Index_discover_posts(Index_register(s, self), self, fs.postdir),
            self, fs.tagdir),
        self)

\* Index()
Index_init(s) == Index_init_self(s, NewObject(s, "Index", ""))

\* ----------------------------------------------------------------- render

None == <<"None", "", 0>>

\* what a template is rendered from: the page and the keyword arguments that name
\* other objects (the rendered text itself is the Renderer's business)
Document(kind, page, index, tag, next_post, previous_post, pages) ==
    [kind |-> kind, page |-> page, index |-> index, tag |-> tag,
     next_post |-> next_post, previous_post |-> previous_post, pages |-> pages]

\* template.render(...): the document is rendered
Rendered(s, doc) ==
    IF ~Ok(s) THEN s
    ELSE [s EXCEPT !.trace = Append(@, [op |-> "render", path |-> <<>>, doc |-> doc])]

\* with open(filename, "w") as file: print(html, file=file); open raises OSError
\* for a file name that cannot be opened for writing
WriteFile(s, filename, doc) ==
    IF ~Ok(s) THEN s
    ELSE IF filename \in fs.blocked
    THEN Raise([s EXCEPT !.trace = Append(@, [op |-> "fail", path |-> filename,
                                              doc |-> doc])],
               "OSError")
    ELSE [s EXCEPT !.html = (filename :> doc) @@ @,
                   !.log = Append(@, [path |-> filename, doc |-> doc]),
                   !.trace = Append(@, [op |-> "write", path |-> filename, doc |-> doc])]

\* the file name of Post.save_html, the uris computed: HTMLDIR/uri, or
\* HTMLDIR/(tag.uri + uri) under a tag
Post_filename(s, self, tag) ==
    IF tag = None THEN <<HTMLDIR>> \o SplitPath(Val(s, "Post.uri", self))
    ELSE <<HTMLDIR>> \o SplitPath(Val(s, "Tag.uri", tag) \o Val(s, "Post.uri", self))

\* the uri calls of Post.save_html
Post_uris(s, self, tag) ==
    cache(IF tag = None THEN s ELSE cache(s, "Tag.uri", tag), "Post.uri", self)

\* Post.save_html
Post_save_html(s, self, doc, tag) ==
    IF Ok(s) THEN WriteFile(s, Post_filename(s, self, tag), doc) ELSE s

\* Post.render: the document is rendered, then saved
Post_render_doc(s, self, doc, tag) ==
    Post_save_html(Post_uris(Rendered(s, doc), self, tag), self, doc, tag)

Post_render(s, self, index, tag, next_post, previous_post) ==
    Post_render_doc(s, self,
                    Document("post", self, index, tag, next_post, previous_post, <<>>),
                    tag)

\* the post template shows page.content(): of a converted document, what its
\* outputs show
PostTemplate(content) == content.outputs

\* for k, v in plots.items(): html = html.replace(k, v)
patch_html(page, plots) ==
    [k \in 1..Len(page) |-> IF page[k] \in DOMAIN plots THEN plots[page[k]] ELSE page[k]]

\* _patch_js_license_in_html: the script that follows a plotly-graph-div gets the
\* license lines (the script of the other family only if its payload names its schema)
patch_js_license_in_html(page) ==
    [k \in 1..Len(page) |->
        IF page[k].kind = PLOTLY THEN [page[k] EXCEPT !.license = TRUE] ELSE page[k]]

\* NotebookPost.render, from the template on: the tokens of both maps are replaced
NotebookPost_html(s, self) ==
    patch_js_license_in_html(
        patch_html(patch_html(PostTemplate(Val(s, "Post.content", self)),
                              s.notebook[self].plotly_plots),
                   s.notebook[self].vega_plots))

\* the arguments of the template and the page that is saved
NotebookPost_document(s, self, index, tag) ==
    [kind |-> "post", page |-> self, index |-> index, tag |-> tag,
     next_post |-> None, previous_post |-> None, pages |-> <<>>,
     mathjax |-> s.notebook[self].mathjax,
     vega |-> s.notebook[self].vega_plots # <<>>,
     plotly |-> s.notebook[self].plotly_plots # <<>>,
     body |-> NotebookPost_html(s, self)]

NotebookPost_render_page(s, self, index, tag) ==
    IF ~Ok(s) THEN s
    ELSE Post_render_doc(s, self, NotebookPost_document(s, self, index, tag), tag)

\* NotebookPost.render(index, tag): the template calls page.content()
NotebookPost_render(s, self, index, tag) ==
    NotebookPost_render_page(cache(s, "Post.content", self), self, index, tag)

\* the siblings mixed up: the older post as next, the newer one as previous
NextOf_older(posts, i) == IF i = Len(posts) THEN None ELSE posts[i + 1]
PreviousOf_newer(posts, i) == IF i = 1 THEN None ELSE posts[i - 1]

\* the siblings the render loops hand to post i of a list
NextOf(posts, i) == IF i = 1 THEN None ELSE posts[i - 1]
PreviousOf(posts, i) == IF i = Len(posts) THEN None ELSE posts[i + 1]

\* a loop that skips a post whose render raised and goes on with the next
RECURSIVE RenderPosts_skipping(_, _, _, _, _)
RenderPosts_skipping(s, posts, i, index, tag) ==
    IF i > Len(posts) \/ ~Ok(s) THEN s
    ELSE RenderPosts_skipping(
             [Post_render(s, posts[i], index, tag, NextOf(posts, i), PreviousOf(posts, i))
                 EXCEPT !.err = "none"],
             posts, i + 1, index, tag)

\* the loop of Tag.render or Index.render over posts, from position i on
RECURSIVE RenderPosts(_, _, _, _, _)
RenderPosts(s, posts, i, index, tag) ==
    IF i > Len(posts) \/ ~Ok(s) THEN s
    ELSE RenderPosts(
             Post_render(s, posts[i], index, tag, NextOf(posts, i), PreviousOf(posts, i)),
             posts, i + 1, index, tag)

INDEX_HTML == <<"i","n","d","e","x",".","h","t","m","l">>

\* with open(HTMLDIR/self.uri()/"index.html", "w")
Tag_write(s, self, doc) ==
    WriteFile(s, <<HTMLDIR>> \o SplitPath(Val(s, "Tag.uri", self)) \o <<INDEX_HTML>>, doc)

Tag_save(s, self, doc) == IF ~Ok(s) THEN s ELSE Tag_write(cache(s, "Tag.uri", self), self, doc)

\* Tag.render that takes the siblings of a member from the post list of the Index
IndexNext(all, i) == IF i <= 1 THEN None ELSE all[i - 1]
IndexPrevious(all, i) == IF i = 0 \/ i = Len(all) THEN None ELSE all[i + 1]

RECURSIVE RenderMembers_index_siblings(_, _, _, _, _)
RenderMembers_index_siblings(s, posts, i, index, tag) ==
    IF i > Len(posts) \/ ~Ok(s) THEN s
    ELSE RenderMembers_index_siblings(
             Post_render(s, posts[i], index, tag,
                         IndexNext(s.index_posts[index], Find(s.index_posts[index], posts[i])),
                         IndexPrevious(s.index_posts[index], Find(s.index_posts[index], posts[i]))),
             posts, i + 1, index, tag)

Tag_render_index_siblings(s, self, index) ==
    IF s.tag_posts[self] = <<>> THEN Raise(s, "IndexError")
    ELSE Tag_save(RenderMembers_index_siblings(s, s.tag_posts[self], 1, index, self), self,
                  Document("tag", self, index, self, None, None, <<s.tag_posts[self][1]>>))

\* Tag.render that reverses self.posts in place before it renders
Tag_render_reversing(s, self, index) ==
    IF s.tag_posts[self] = <<>> THEN Raise(s, "IndexError")
    ELSE [RenderPosts(s, Reverse(s.tag_posts[self]), 1, index, self)
             EXCEPT !.tag_posts[self] = Reverse(@)]

\* Tag.render: the landing page is rendered from the newest member, every member is
\* rendered under the tag, then the landing page is written
Tag_render_doc(s, self, index, doc) ==
    Tag_save(RenderPosts(Rendered(s, doc), s.tag_posts[self], 1, index, self), self, doc)

Tag_render(s, self, index) ==
    IF s.tag_posts[self] = <<>> THEN Raise(s, "IndexError")
    ELSE Tag_render_doc(s, self, index,
                        Document("tag", self, index, self, None, None,
                                 <<s.tag_posts[self][1]>>))

RECURSIVE RenderTags(_, _, _)
RenderTags(s, tags, index) ==
    IF tags = <<>> \/ ~Ok(s) THEN s
    ELSE RenderTags(Tag_render(s, Head(tags), index), Tail(tags), index)

\* the three verification files (their names shortened)
Verification ==
    << <<"B","i","n","g",".","x","m","l">>, <<"g","o","o","g","l","e",".","h","t","m","l">>,
       <<"y","a","n","d","e","x",".","h","t","m","l">> >>

VerificationDocument == Document("verification", None, None, None, None, None, <<>>)
FeedDocument(self) == Document("feed", self, self, None, None, None, <<>>)

\* what Template("") renders to, whatever it is rendered from: the empty string
EmptyDocument == Document("", None, None, None, None, None, <<>>)

\* a get_template that opens the file without looking whether it exists
get_template_unchecked(s, name) ==
    IF name \in fs.templates THEN Ret(s, name)
    ELSE Ret(Raise(s, "FileNotFoundError"), NoText)

\* get_template: the template of the file of that name in the template directory (a
\* template is known by its name), Template("") when there is no such file
get_template(s, name) == Ret(s, IF name \in fs.templates THEN name ELSE NoText)

\* template.render(): the document, or the empty string for Template("")
TemplateRender(template, doc) == IF template = NoText THEN EmptyDocument ELSE doc

\* get_template(name).render()
RenderTemplate(r, doc) == Rendered(r.s, TemplateRender(r.v, doc))

\* what get_template(name).render() returned
VerificationOf(name) == TemplateRender(get_template(Cur, name).v, VerificationDocument)

\* get_template(name).render() for each verification file
RECURSIVE RenderAll(_, _)
RenderAll(s, names) ==
    IF names = <<>> \/ ~Ok(s) THEN s
    ELSE RenderAll(RenderTemplate(get_template(s, Head(names)), VerificationDocument),
                   Tail(names))

\* the start of Index.render: the home page, the feed, the sitemap and the
\* verification files are rendered
Index_render_root(s, self, home, sitemap) ==
    RenderAll(Rendered(Rendered(Rendered(s, home), FeedDocument(self)), sitemap),
              Verification)

RECURSIVE WriteAll(_, _)
WriteAll(s, names) ==
    IF names = <<>> THEN s
    ELSE WriteAll(WriteFile(s, <<HTMLDIR, Head(names)>>, VerificationOf(Head(names))),
                  Tail(names))

\* the end of Index.render: index.html, index.xml, sitemap.xml and the verification
\* files are written
Index_write(s, self, uri, home, sitemap) ==
    WriteAll(
        WriteFile(
            WriteFile(
                WriteFile(s, <<HTMLDIR>> \o SplitPath(uri), home),
                <<HTMLDIR, SubSeq(uri, 1, Len(uri) - 5) \o <<".","x","m","l">> >>,
                FeedDocument(self)),
            <<HTMLDIR, <<"s","i","t","e","m","a","p",".","x","m","l">> >>, sitemap),
        Verification)

Index_write_uri(s, self, home, sitemap) ==
    Index_write(s, self, Val(s, "Index.uri", self), home, sitemap)

Index_save(s, self, home, sitemap) ==
    IF ~Ok(s) THEN s ELSE Index_write_uri(cache(s, "Index.uri", self), self, home, sitemap)

\* Index.render: the root documents are rendered first (the home page from the newest
\* post, the sitemap from [self, *self.posts, *self.tags]), then every post is
\* rendered standalone, every tag is rendered, and the root documents are written.
\* The feed's date goes to the Renderer only: no value the process keeps depends
\* on it.
\* a page list without the tags
SitemapPages_without_tags(s, self) == <<self>> \o s.index_posts[self]

\* pages=[self, *self.posts, *self.tags]
SitemapPages(s, self) == <<self>> \o s.index_posts[self] \o s.index_tags[self]

\* Index.render with the two loops swapped: the tags first, then the posts
Index_render_docs_tags_first(s, self, home, sitemap) ==
    Index_save(
        RenderPosts(RenderTags(Index_render_root(s, self, home, sitemap),
                               s.index_tags[self], self),
                    s.index_posts[self], 1, self, None),
        self, home, sitemap)

Index_render_docs(s, self, home, sitemap) ==
    Index_save(
        RenderTags(RenderPosts(Index_render_root(s, self, home, sitemap),
                               s.index_posts[self], 1, self, None),
                   s.index_tags[self], self),
        self, home, sitemap)

Index_render(s, self) ==
    IF s.index_posts[self] = <<>> THEN Raise(s, "IndexError")
    ELSE Index_render_docs(
             s, self,
             Document("index", self, self, None, None, None, <<s.index_posts[self][1]>>),
             Document("sitemap", None, None, None, None, None, SitemapPages(s, self)))

\* ------------------------------------------------------ source trees

\* the source of a post (of the first cell of a notebook), line by line: a title, a
\* blank line and two paragraphs; the same behind a blank line and with the title
\* indented; no title; blank lines only; nothing
SRC_TITLED ==
    << <<"#"," ","T","\n">>, <<"\n">>, <<"p","\n">>, <<"q","\n">>, <<"\n">>, <<"r","\n">> >>
SRC_INDENTED == << <<" ","\n">>, <<" "," ","#"," ","T","\n">> >> \o Tail(SRC_TITLED)
SRC_TEXT == << <<"p","\n">>, <<"#"," ","T","\n">> >>
SRC_BLANK == << <<"\n">>, <<" ","\n">> >>
SRC_EMPTY == <<>>
\* a title and the first paragraph right below it
SRC_TIGHT == << <<"#"," ","T","\n">>, <<" ","p","\n">>, <<"q","\n">>, <<"\n">>, <<"r","\n">> >>
Sources == {SRC_TITLED, SRC_INDENTED, SRC_TEXT, SRC_BLANK, SRC_EMPTY, SRC_TIGHT}

Listing(base, present, reversed) ==
    LET l == SelectSeq(base, LAMBDA x : x \in present)
    IN  IF reversed THEN Reverse(l) ELSE l

\* the history of a file with one commit at UTC date d (none for d = 0); the commit's
\* author date is written in a zone that is d % 2 hours ahead of UTC
History(d) ==
    IF d = 0 THEN <<>>
    ELSE << [local |-> d + (d % 2), off |-> d % 2, an |-> <<"j","O">>] >>

\* a source tree: the posts folder holds the files of `posts`, the static link and
\* the subfolder; the tags folder holds the folders of DOMAIN members and a plain
\* file; tag folder t holds links to members[t] and a file that is no post.
\* glob() lists a folder in either direction of a fixed order.
Tree(posts, members, dates, untitled, rposts, rtags) ==
    [postdir |-> Listing(<<P1, POSTS_STATIC, P2, POSTS_TXT, P3, P5, POSTS_SUB>>,
                         posts \cup {POSTS_STATIC, POSTS_TXT, POSTS_SUB}, rposts),
     tagdir |-> Listing(<<T1, TAGS_TXT, T2, T3>>,
                        DOMAIN members \cup {TAGS_TXT}, rtags),
     tagfiles |-> [t \in DOMAIN members |->
                     Listing(<<P1, P2, TagTxt(t), P3, P4, P5>>,
                             members[t] \cup {TagTxt(t)}, rtags)],
     dirs |-> {POSTS_STATIC, POSTS_SUB} \cup DOMAIN members,
     git |-> [p \in DOMAIN dates |-> History(dates[p])],
     head |-> [p \in DOMAIN dates |-> IF p \in untitled THEN SRC_TEXT ELSE SRC_TITLED],
     blocked |-> {},
     templates |-> Range(Verification),
     notebooks |-> <<>>]

InitProgram ==
    /\ Post_posts = <<>>
    /\ Tag_tags = <<>>
    /\ heap = {}
    /\ post_tags = <<>>
    /\ post_lines = <<>>
    /\ notebook = <<>>
    /\ tokens = 0
    /\ tag_posts = <<>>
    /\ tag_done = {}
    /\ index_posts = <<>>
    /\ index_tags = <<>>
    /\ memo = <<>>
    /\ ncomp = <<>>
    /\ clock = 0
    /\ html = <<>>
    /\ outdirs = {}
    /\ log = <<>>
    /\ trace = <<>>
    /\ ret = [f |-> "start", self |-> None, v |-> 0]
    /\ calls = 0
    /\ err = "none"

\* Spec: the whole driver on trees with c.html or a.html in the posts folder, alone
\* or next to a.md and b.ipynb, with c.md in the subfolder, and with two tag folders:
\* "py (a)" with "rs" or with "py (b)"; every file has a history
Init ==
    /\ InitProgram
    /\ \E other \in {T2, T3}, third \in {P3, P5} :
       \E posts \in {{third}, {P1, P2, third}} :
       \E m1 \in SUBSET (({P1, third} \cap posts) \cup {P4}),
          m2 \in SUBSET (({P1} \cap posts) \cup {P4}),
          d1 \in 1..MaxDate :
          fs = Tree(posts, (T1 :> m1) @@ (other :> m2),
                    [p \in posts \cup {P4} |->
                        IF p = P1 THEN d1 ELSE IF p = P2 THEN 1 ELSE MaxDate],
                    {}, FALSE, FALSE)

\* SpecBuild: construction alone on trees with any history (or none) for each of
\* a.md and b.ipynb, an old history or none for c.html, any membership in "py (a)" and "rs", any listing
\* direction, and possibly no title line in b.ipynb
InitBuild ==
    /\ InitProgram
    /\ \E m1 \in SUBSET {P1, P2, P3}, m3 \in SUBSET {P1, P2},
          dates \in [{P1, P2} -> 0..MaxDate], d3 \in 0..1,
          untitled \in SUBSET {P2},
          rposts \in BOOLEAN, rtags \in BOOLEAN :
          fs = Tree({P1, P2, P3}, (T1 :> m1) @@ (T3 :> m3), dates @@ (P3 :> d3),
                    untitled, rposts, rtags)

\* SpecSource: construction of a.md and b.ipynb with any of the sources, by the class
\* called on the path, by Tag("py (a)") and by Index()
InitSource ==
    /\ InitProgram
    /\ \E m1 \in {{}, {P1}, {P1, P2}}, head \in [{P1, P2} -> Sources] :
          fs = [Tree({P1, P2}, (T1 :> m1), (P1 :> 1) @@ (P2 :> 1), {}, FALSE, FALSE)
                   EXCEPT !.head = head]

\* SpecNotebook: a.md and the notebook b.ipynb under the tag "py (a)", for every
\* document of MaxCells cells at most
Line(text) == text \o <<"\n">>
Output(data) == [data |-> data]
Image == Element("png", 0, 0)
Plain == <<Element("text", 0, 0)>>
CellKinds == {"title", "marked", "empty", "plotly", "both", "nopng", "raw"}
CellOf(kind, n) ==
    CASE kind = "title" -> Cell("markdown", n, <<Line(<<"#"," ","T">>), Line(<<"$","x","$">>)>>, <<>>)
      [] kind = "marked" -> Cell("code", n, <<Line(<<"#","!">>), Line(<<"x">>)>>, <<>>)
      [] kind = "empty" -> Cell("code", n, <<>>, <<>>)
      [] kind = "plotly" ->
            Cell("code", n, <<Line(<<"f">>)>>,
                 <<Output((PNG :> Image) @@ (PLAIN :> Plain) @@ (PLOTLY :> 1))>>)
      [] kind = "both" ->
            Cell("code", n, <<Line(<<"g">>)>>,
                 <<Output((PNG :> Image) @@ (PLAIN :> Plain) @@ (PLOTLY :> 2) @@ (VEGA :> 3))>>)
      [] kind = "nopng" ->
            Cell("code", n, <<Line(<<"h">>)>>, <<Output((PLAIN :> Plain) @@ (VEGA :> 4))>>)
      [] kind = "raw" -> Cell("raw", n, <<Line(<<"r">>)>>, <<>>)
NotebookOf(kinds) == [n \in 1..Len(kinds) |-> CellOf(kinds[n], n)]

InitNotebook ==
    /\ InitProgram
    /\ \E kinds \in UNION {[1..k -> CellKinds] : k \in 1..MaxCells} :
          fs = [Tree({P1, P2}, (T1 :> {P1, P2}), (P1 :> 1) @@ (P2 :> 1), {}, FALSE, FALSE)
                   EXCEPT !.notebooks = (P2 :> NotebookOf(kinds))]

\* SpecLinks: replace_markdown_links on every text of MaxPieces pieces at most
Pieces ==
    { <<"]", "(">>, <<")">>, <<"a">>, <<"/">>, <<".">>, HTTP, HTTPS, STATICDIR }
Texts(n) == UNION {[1..k -> Pieces] : k \in 0..n}

InitLinks ==
    /\ InitProgram
    /\ \E pieces \in Texts(MaxPieces) : fs = [content |-> Join(pieces)]

\* SpecFail: build and render of a.md, b.ipynb and c.html with the tags "py (a)" and
\* "rs", where one of the output files, or none, cannot be opened for writing and
\* all, one or none of the verification files are in the template directory
Outputs ==
    { <<HTMLDIR, A_HTML>>, <<HTMLDIR, C_HTML>>,
      <<HTMLDIR, TAGDIR, TagName(Parts(T1)), A_HTML>>,
      <<HTMLDIR, TAGDIR, TagName(Parts(T1)), INDEX_HTML>>,
      <<HTMLDIR, INDEX_HTML>> }

InitFail ==
    /\ InitProgram
    /\ \E m1 \in {{P1}, {P1, P2}}, m3 \in {{P2}, {P1, P3}}, d1 \in 1..MaxDate,
          blocked \in {{}} \cup {{f} : f \in Outputs},
          templates \in {{}, {Verification[1]}, Range(Verification)} :
          fs = [Tree({P1, P2, P3}, (T1 :> m1) @@ (T3 :> m3),
                     (P1 :> d1) @@ (P2 :> 2) @@ (P3 :> 1), {}, FALSE, FALSE)
                   EXCEPT !.blocked = blocked, !.templates = templates]

\* SpecNames: name() and longname() of the Tag of every folder name of MaxName
\* characters at most that a directory entry can have
NameChars == {"a", "b", " ", "(", ")", "."}
FolderNames ==
    UNION {[1..k -> NameChars] : k \in 1..MaxName} \ {<<".">>, <<".", ".">>}

InitNames ==
    /\ InitProgram
    /\ \E folder \in FolderNames : fs = [folder |-> folder]

\* SpecCache: accessor calls around the build of trees with a.md and b.ipynb, each
\* with or without history, both or none of them in "py (a)"
InitCache ==
    /\ InitProgram
    /\ \E m1 \in {{}, {P1, P2}}, d1 \in {0, MaxDate}, d2 \in 0..1 :
          fs = Tree({P1, P2}, (T1 :> m1), (P1 :> d1) @@ (P2 :> d2), {}, FALSE, FALSE)

\* ---------------------------------------------------------------- actions

Running == err = "none"
Fresh == [Cur EXCEPT !.log = <<>>, !.trace = <<>>]
Indexes == DOMAIN index_posts

\* the operation f(self) has ended in r.s, with value r.v unless it raised
Finish(r, f, self) == Commit(r.s) /\ Returned(f, self, r.v)

\* a call returns the stored value
Called(s, f, self) == Ret(s, IF Ok(s) THEN Val(s, f, self) ELSE 0)

\* index = Index()
NewIndex ==
    /\ Running
    /\ Cardinality(Indexes) < MaxIndex
    /\ Commit(Index_init(Fresh))
    /\ Returned("Index", None, NewObject(Cur, "Index", ""))
    /\ UNCHANGED calls

\* Tag(path) for a folder of the tags folder
NewTag(path) ==
    /\ Running
    /\ Finish(ConstructTag(Fresh, path), "Tag", None)
    /\ UNCHANGED calls

\* the callee of a constructor call: the class and its argument
ClassCall(path) == <<EXTS(Suffix(Last(Parts(path)))), path, 0>>

\* post = cls(path) for a file of the tree that has a post class
NewPost(path) ==
    /\ Running
    /\ tokens < MaxTokens
    /\ EXTS(Suffix(Last(Parts(path)))) # "none"
    /\ Finish(Construct(Fresh, EXTS(Suffix(Last(Parts(path)))), path), "Post",
              ClassCall(path))
    /\ UNCHANGED calls

\* replace_markdown_links(content), once
ReplaceLinks ==
    /\ ret.f = "start"
    /\ ret' = [f |-> "replace_markdown_links", self |-> None,
               v |-> replace_markdown_links(fs.content)]
    /\ UNCHANGED <<fs, Post_posts, Tag_tags, heap, post_tags, post_lines, notebook, tokens, tag_posts,
                   tag_done, index_posts, index_tags, memo, ncomp, clock, html, outdirs,
                   log, trace, calls, err>>

\* Tag(TAGDIR/folder).name() and .longname(), once
NameOf(f, folder) ==
    IF f = "Tag.name" THEN TagName(<<TAGDIR, folder>>) ELSE TagLongName(<<TAGDIR, folder>>)

CallName(f) ==
    /\ ret.f = "start"
    /\ ret' = [f |-> f, self |-> None, v |-> NameOf(f, fs.folder)]
    /\ UNCHANGED <<fs, Post_posts, Tag_tags, heap, post_tags, post_lines, notebook, tokens, tag_posts,
                   tag_done, index_posts, index_tags, memo, ncomp, clock, html, outdirs,
                   log, trace, calls, err>>

Posts == {o \in heap : IsPost(o)}

\* index.render()
RenderIndex(index) ==
    /\ Running
    /\ Commit(Index_render(Fresh, index))
    /\ Returned("Index.render", index, None)
    /\ UNCHANGED calls

\* a call of the memoised accessor f on an object the process holds
Accessors(obj) ==
    IF IsPost(obj)
    THEN {"Post.priority", "Post.author", "Post.name", "Post.ext", "Post.uri",
          "Post.utcpublished", "Post.utcmodified"}
    ELSE IF ClassOf(obj) = "Tag"
    THEN {"Tag.priority", "Tag.utcmodified", "Tag.num_posts", "Tag.name",
          "Tag.longname", "Tag.uri"}
    ELSE {"Index.priority", "Index.utcmodified", "Index.num_posts", "Index.name",
          "Index.uri"}

CallAccessor(f, self) ==
    /\ Running
    /\ calls < MaxCalls
    /\ Finish(Called(cache(Fresh, f, self), f, self), f, self)
    /\ calls' = calls + 1

Next ==
    \/ NewIndex
    \/ \E path \in DOMAIN fs.tagfiles : NewTag(path)
    \/ \E index \in Indexes : RenderIndex(index)

Spec == Init /\ [][Next]_vars

NextBuild ==
    \/ NewIndex
    \/ \E path \in DOMAIN fs.tagfiles : NewTag(path)

SpecBuild == InitBuild /\ [][NextBuild]_vars

NextCache ==
    \/ NewIndex
    \/ \E path \in DOMAIN fs.tagfiles : NewTag(path)
    \/ \E self \in heap : \E f \in Accessors(self) : CallAccessor(f, self)

SpecCache == InitCache /\ [][NextCache]_vars

NextSource ==
    \/ NewIndex
    \/ \E path \in DOMAIN fs.tagfiles : NewTag(path)
    \/ \E path \in DOMAIN fs.head : NewPost(path)
    \/ \E self \in Posts : CallAccessor("Post.summary", self)

SpecSource == InitSource /\ [][NextSource]_vars

\* post.render() of a notebook or markdown post the process holds
RenderPost(self) ==
    /\ Running
    /\ Finish(Ret(NotebookPost_render(Fresh, self, None, None), None), "Post.render", self)
    /\ UNCHANGED calls

NextNotebook ==
    \/ \E path \in DOMAIN fs.head : NewPost(path)
    \/ \E path \in DOMAIN fs.tagfiles : NewTag(path)
    \/ \E self \in DOMAIN notebook : CallAccessor("Post.content", self)
    \/ \E self \in DOMAIN notebook : RenderPost(self)

SpecNotebook == InitNotebook /\ [][NextNotebook]_vars

SpecLinks == InitLinks /\ [][ReplaceLinks]_vars

NextFail ==
    \/ NewIndex
    \/ \E index \in Indexes : RenderIndex(index)

SpecFail == InitFail /\ [][NextFail]_vars

NextNames ==
    \/ CallName("Tag.name")
    \/ CallName("Tag.longname")

SpecNames == InitNames /\ [][NextNames]_vars

\* ------------------------------------------------------------- properties

Tags == {o \in heap : ClassOf(o) = "Tag"}
Elems(lists) == UNION {Range(lists[x]) : x \in DOMAIN lists}

\* C1: a source path has one Post and one Tag at most, whatever was constructed and
\* how often: no two Post objects and no two Tag objects of the process have the same
\* path, each registry maps a path to the object of that path, every object a
\* construction handed to a list or returned is the registered one
C1_SingleInstancePerPath ==
    /\ \A a, b \in Posts : PathOf(a) = PathOf(b) => a = b
    /\ \A a, b \in Tags : PathOf(a) = PathOf(b) => a = b
    /\ \A p \in DOMAIN Post_posts : Post_posts[p] \in Posts /\ PathOf(Post_posts[p]) = p
    /\ \A p \in DOMAIN Tag_tags : Tag_tags[p] \in Tags /\ PathOf(Tag_tags[p]) = p
    /\ \A o \in Elems(index_posts) \cup Elems(tag_posts) :
          PathOf(o) \in DOMAIN Post_posts /\ Post_posts[PathOf(o)] = o
    /\ \A o \in Elems(index_tags) \cup Elems(post_tags) :
          PathOf(o) \in DOMAIN Tag_tags /\ Tag_tags[PathOf(o)] = o
    /\ (ret.f = "Tag" /\ err = "none") => Tag_tags[PathOf(ret.v)] = ret.v

\* two Indexes and a Tag hold the same Post, and Tag(path) has just been called for a
\* tag the Indexes hold
C1_Witness ==
    /\ err = "none"
    /\ Cardinality(Indexes) = 2
    /\ ret.f = "Tag"
    /\ \A i \in Indexes : ret.v \in Range(index_tags[i])
    /\ \E p \in Range(tag_posts[ret.v]) : \A i \in Indexes : p \in Range(index_posts[i])

Published(p) == memo[Key("Post.utcpublished", p)]

\* C3 as stated: in the member list of every constructed Tag each post is strictly
\* newer than the one after it
C3_StrictlyDescending ==
    \A t \in tag_done : \A i \in 1..(Len(tag_posts[t]) - 1) :
        Published(tag_posts[t][i]) > Published(tag_posts[t][i + 1])

\* C3, amended: in the member list of every constructed Tag no post is older than
\* the one after it (posts published at the same time stand next to each other)
C3_Descending ==
    \A t \in tag_done : \A i \in 1..(Len(tag_posts[t]) - 1) :
        Published(tag_posts[t][i]) >= Published(tag_posts[t][i + 1])

\* a constructed Tag of three posts, not all of one date, two of which stand in the
\* member list the other way round than in the listing of the tag folder
C3_Witness ==
    \E t \in tag_done :
        /\ Len(tag_posts[t]) = 3
        /\ Published(tag_posts[t][1]) > Published(tag_posts[t][3])
        /\ \E i, j \in 1..3 :
              /\ i < j
              /\ Find(fs.tagfiles[PathOf(t)], PathOf(tag_posts[t][i]))
                   > Find(fs.tagfiles[PathOf(t)], PathOf(tag_posts[t][j]))

Members(t) == Len(tag_posts[t])
ShortName(t) == TagName(Parts(PathOf(t)))

\* tag a may stand right before tag b: it has more members, or as many and a name
\* that is not behind b's
TagsInOrder(a, b) ==
    \/ Members(a) > Members(b)
    \/ Members(a) = Members(b) /\ ~StrLess(ShortName(b), ShortName(a))

\* C4: when Index() has returned, the tags of every Index stand by member count,
\* largest first, and by short name among tags of equal count, and its posts stand
\* by publish time, newest first
C4_IndexSorted ==
    err = "none" =>
        \A index \in Indexes :
            /\ \A i \in 1..(Len(index_tags[index]) - 1) :
                  TagsInOrder(index_tags[index][i], index_tags[index][i + 1])
            /\ \A i \in 1..(Len(index_posts[index]) - 1) :
                  Published(index_posts[index][i]) >= Published(index_posts[index][i + 1])

\* an Index of three posts of different dates and two tags, where the tag listed
\* second has more members and stands first, and the post listed first is not the
\* newest
C4_Witness ==
    /\ err = "none"
    /\ \E index \in Indexes :
          /\ Len(index_posts[index]) = 3
          /\ Published(index_posts[index][1]) > Published(index_posts[index][3])
          /\ PathOf(index_posts[index][1]) # fs.postdir[1]
          /\ Len(index_tags[index]) = 2
          /\ Members(index_tags[index][1]) > Members(index_tags[index][2])
          /\ Find(fs.tagdir, PathOf(index_tags[index][1]))
               > Find(fs.tagdir, PathOf(index_tags[index][2]))

\* C5: when every tag folder has its Tag, the tag list of every Post stands by the
\* final member count of the tags, largest first, and by short name among tags of
\* equal count
C5_PostTagsSorted ==
    (err = "none" /\ \A path \in DOMAIN fs.tagfiles : \E t \in tag_done : PathOf(t) = path)
        => \A p \in DOMAIN post_tags :
              \A i \in 1..(Len(post_tags[p]) - 1) :
                  TagsInOrder(post_tags[p][i], post_tags[p][i + 1])

\* all Tags are constructed and a post of two tags has the tag with more members
\* first, although its name is the later one
C5_Witness ==
    /\ err = "none"
    /\ \A path \in DOMAIN fs.tagfiles : \E t \in tag_done : PathOf(t) = path
    /\ \E p \in DOMAIN post_tags :
          /\ Len(post_tags[p]) = 2
          /\ Members(post_tags[p][1]) > Members(post_tags[p][2])
          /\ StrLess(ShortName(post_tags[p][2]), ShortName(post_tags[p][1]))

\* C6: a Post is in the member list of a Tag exactly when the Tag is in the tag list
\* of the Post
C6_Reciprocal ==
    \A p \in DOMAIN post_tags : \A t \in DOMAIN tag_posts :
        (p \in Range(tag_posts[t])) <=> (t \in Range(post_tags[p]))

\* an Index and its Tags are built: one post is in two tags, one post is in one tag
\* only, one post is in none
C6_Witness ==
    /\ err = "none"
    /\ Indexes # {}
    /\ \E p, q, r \in DOMAIN post_tags :
          /\ Len(post_tags[p]) = 2
          /\ Len(post_tags[q]) = 1
          /\ post_tags[r] = <<>>
          /\ \E t \in tag_done : p \in Range(tag_posts[t]) /\ q \notin Range(tag_posts[t])

\* C7: no step changes the member list of a Tag whose construction has completed:
\* not Tag(path) for the same or another folder, not a further Index(), not
\* Index.render with the Tag.render and Post.render calls it makes
C7_MembersFixed ==
    [][\A t \in tag_done : t \in DOMAIN tag_posts' /\ tag_posts'[t] = tag_posts[t]]_vars

\* Index.render has written the pages of a Tag of two members or more, after a second
\* Index was built
C7_Witness ==
    /\ err = "none"
    /\ ret.f = "Index.render"
    /\ Cardinality(Indexes) = 2
    /\ \E t \in tag_done :
          /\ Len(tag_posts[t]) >= 2
          /\ \E i \in 1..Len(log) : log[i].doc.kind = "tag" /\ log[i].doc.page = t

\* the standalone and the tag-scoped post documents the last operation wrote, in order
RootWrites == SelectSeq(log, LAMBDA e : e.doc.kind = "post" /\ e.doc.tag = None)
TagWrites(t) == SelectSeq(log, LAMBDA e : e.doc.kind = "post" /\ e.doc.tag = t)

\* C8: Index.render writes one standalone document for each post of the Index, in
\* the order of Index.posts; the document of the post at position i names the post at
\* position i-1 as next_post (none for the first) and the post at position i+1 as
\* previous_post (none for the last)
C8_IndexSiblings ==
    ret.f = "Index.render" =>
        /\ Len(RootWrites) = Len(index_posts[ret.self])
        /\ \A i \in 1..Len(RootWrites) :
              /\ RootWrites[i].doc.page = index_posts[ret.self][i]
              /\ RootWrites[i].doc.index = ret.self
              /\ RootWrites[i].doc.next_post =
                    (IF i = 1 THEN None ELSE index_posts[ret.self][i - 1])
              /\ RootWrites[i].doc.previous_post =
                    (IF i = Len(RootWrites) THEN None ELSE index_posts[ret.self][i + 1])

\* Index.render has rendered three posts of three different dates: the middle one has
\* the newer post as next and the older one as previous
C8_Witness ==
    /\ ret.f = "Index.render"
    /\ Len(RootWrites) = 3
    /\ Published(RootWrites[1].doc.page) > Published(RootWrites[2].doc.page)
    /\ Published(RootWrites[2].doc.page) > Published(RootWrites[3].doc.page)
    /\ RootWrites[2].doc.next_post = RootWrites[1].doc.page
    /\ RootWrites[2].doc.previous_post = RootWrites[3].doc.page
    /\ RootWrites[1].doc.next_post = None
    /\ RootWrites[3].doc.previous_post = None

\* Index.render has rendered the only post of an Index: it has no sibling
C8_WitnessSingle ==
    /\ ret.f = "Index.render"
    /\ err = "none"
    /\ Len(RootWrites) = 1
    /\ RootWrites[1].doc.next_post = None
    /\ RootWrites[1].doc.previous_post = None

\* the files under HTMLDIR that hold a document of post p
FilesOf(p) == {f \in DOMAIN html : html[f].kind = "post" /\ html[f].page = p}


\* C9 as stated: when Index.render has returned, every Post has one output file more
\* than it has tags: the file of its root uri, and the file of its uri under the uri
\* of each of its tags
C9_OneFilePerTagPlusRoot ==
    (ret.f = "Index.render" /\ err = "none") =>
        \A p \in DOMAIN post_tags :
            /\ Cardinality(FilesOf(p)) = Len(post_tags[p]) + 1
            /\ <<HTMLDIR, Stem(Last(Parts(PathOf(p)))) \o DotHtml>> \in FilesOf(p)
            /\ \A i \in 1..Len(post_tags[p]) :
                  <<HTMLDIR, TAGDIR, ShortName(post_tags[p][i]),
                    Stem(Last(Parts(PathOf(p)))) \o DotHtml>> \in FilesOf(p)

\* C10: the tag-scoped documents Index.render writes for a Tag are those of its
\* members in the order of the member list (all of them when the render returns); the
\* document of the member at position i names the member at position i-1 as next_post
\* (none for the first) and the member at position i+1 as previous_post (none for the
\* last), so no sibling of a tag-scoped document is a post outside the tag
C10_TagSiblings ==
    ret.f = "Index.render" =>
        \A k \in 1..Len(index_tags[ret.self]) :
            /\ Len(TagWrites(index_tags[ret.self][k])) <= Members(index_tags[ret.self][k])
            /\ err = "none" =>
                  Len(TagWrites(index_tags[ret.self][k])) = Members(index_tags[ret.self][k])
            /\ \A i \in 1..Len(TagWrites(index_tags[ret.self][k])) :
                  /\ TagWrites(index_tags[ret.self][k])[i].doc.page =
                        tag_posts[index_tags[ret.self][k]][i]
                  /\ TagWrites(index_tags[ret.self][k])[i].doc.next_post =
                        (IF i = 1 THEN None ELSE tag_posts[index_tags[ret.self][k]][i - 1])
                  /\ TagWrites(index_tags[ret.self][k])[i].doc.previous_post =
                        (IF i = Members(index_tags[ret.self][k]) THEN None
                         ELSE tag_posts[index_tags[ret.self][k]][i + 1])

\* Index.render has returned; a post of a Tag has a newer and an older neighbour in
\* the Index that are not both its neighbours in the Tag: the root document and the
\* tag-scoped document of the post name different siblings
C10_Witness ==
    /\ ret.f = "Index.render"
    /\ err = "none"
    /\ \E i, j \in 1..Len(log) :
          /\ log[i].doc.kind = "post" /\ log[i].doc.tag = None
          /\ log[j].doc.kind = "post" /\ log[j].doc.tag # None
          /\ log[i].doc.page = log[j].doc.page
          /\ Members(log[j].doc.tag) >= 2
          /\ log[i].doc.next_post # None
          /\ log[i].doc.next_post \notin Range(tag_posts[log[j].doc.tag])
          /\ log[j].doc.next_post # log[i].doc.next_post
          /\ log[j].doc.previous_post # None

NoHistory(p) == fs.git[PathOf(p)] = <<>>

\* C11: for a post whose file has no history, author() returns "Anonymous" and
\* utcpublished() and utcmodified() return a reading of the clock (a time after every
\* commit, not after the present); none of the calls raises, and Index() on a tree
\* with such posts returns with their publish times stored
C11_NoHistoryFallback ==
    /\ (ret.f \in {"Post.author", "Post.utcpublished", "Post.utcmodified"}
          /\ NoHistory(ret.self)) =>
          /\ err = "none"
          /\ ret.f = "Post.author" => ret.v = Anonymous
          /\ ret.f # "Post.author" => (ret.v > MaxDate /\ ret.v < utcnow(Cur))
    /\ ret.f = "Index" =>
          /\ err = "none"
          /\ \A p \in Range(index_posts[ret.v]) :
                NoHistory(p) => Published(p) > MaxDate

\* Index() has returned on a tree where no post has a history, and then author() of
\* one post and utcmodified() of the other were called
C11_Witness ==
    /\ err = "none"
    /\ Indexes # {}
    /\ \A p \in Posts : NoHistory(p)
    /\ calls = 2
    /\ ret.f = "Post.utcmodified"
    /\ ret.v > MaxDate
    /\ \E p \in Posts : p # ret.self /\ Key("Post.author", p) \in DOMAIN memo
                         /\ memo[Key("Post.author", p)] = Anonymous

IsBlank(line) == \A i \in 1..Len(line) : IsSpace(line[i])
IsHeading(line) ==
    \E k \in 1..(Len(line) - 1) :
        /\ \A i \in 1..(k - 1) : line[i] = " "
        /\ line[k] = "#"
        /\ line[k + 1] = " "

\* the first non-blank line of the source is a heading
HasTitle(src) ==
    \E i \in 1..Len(src) :
        /\ \A j \in 1..(i - 1) : IsBlank(src[j])
        /\ ~IsBlank(src[i])
        /\ IsHeading(src[i])

GitQueries == {"Post.author", "Post.utcpublished", "Post.utcmodified"}

\* C12 as stated: the construction of a notebook or markdown post raises the title
\* error, which names the post, when the first non-blank line of the source is no
\* heading or the source has no non-blank line; otherwise it returns the Post, and
\* while only posts were constructed no version-control query has run
C12_TitleOrSuccess ==
    (ret.f = "Post" /\ ClassOf(ret.self) # "HtmlPost") =>
        IF HasTitle(fs.head[PathOf(ret.self)])
        THEN /\ err = "none"
             /\ ret.v = Post_posts[PathOf(ret.self)]
             /\ (Indexes = {} /\ Tag_tags = <<>>) =>
                   \A k \in DOMAIN ncomp : k[1] \notin GitQueries
        ELSE /\ err = "RuntimeError"
             /\ \E p \in Posts : PathOf(p) = PathOf(ret.self)
                                  /\ Key("Post.name", p) \in DOMAIN memo

\* the text up to the next "](" (all of it when there is none)
UpToLink(text) ==
    IF FindLink(text, 1) = 0 THEN text ELSE SubSeq(text, 1, FindLink(text, 1) - 1)

\* what C13 asks for: the text is read from left to right; after a "](" the text up
\* to the next ")" is a link target when no other "](" comes first; a target that
\* starts with http://, https:// or static stays, any other becomes /<stem>.html;
\* everything else stays
RECURSIVE Rewritten(_)
Rewritten(text) ==
    IF FindLink(text, 1) = 0 THEN text
    ELSE SubSeq(text, 1, FindLink(text, 1) + 1) \o
         (IF Find(UpToLink(SubSeq(text, FindLink(text, 1) + 2, Len(text))), ")") = 0
          THEN Rewritten(SubSeq(text, FindLink(text, 1) + 2, Len(text)))
          ELSE (IF IsKept(BeforeFirst(SubSeq(text, FindLink(text, 1) + 2, Len(text)), ")"))
                THEN BeforeFirst(SubSeq(text, FindLink(text, 1) + 2, Len(text)), ")")
                ELSE <<"/">>
                     \o PathStem(BeforeFirst(SubSeq(text, FindLink(text, 1) + 2, Len(text)), ")"))
                     \o DotHtml)
               \o Rewritten(SubSeq(text,
                                   FindLink(text, 1) + 1
                                     + Find(SubSeq(text, FindLink(text, 1) + 2, Len(text)), ")"),
                                   Len(text))))

\* C13 as stated: replace_markdown_links returns the text with every link target
\* rewritten or kept by that rule and all other text unchanged, for every input
C13_LinksRewritten ==
    ret.f = "replace_markdown_links" => ret.v = Rewritten(fs.content)

\* a folder name of the form "<short> (<long>)": one "(", one ")", the ")" last
Occurrences(text, c) == Cardinality({i \in 1..Len(text) : text[i] = c})
HasLongName(folder) ==
    /\ Occurrences(folder, "(") = 1
    /\ Occurrences(folder, ")") = 1
    /\ folder[Len(folder)] = ")"
ShortPart(folder) == Strip(SubSeq(folder, 1, Find(folder, "(") - 1))
LongPart(folder) == Strip(SubSeq(folder, Find(folder, "(") + 1, Len(folder) - 1))

\* C14 as stated: for every tag folder name, name() is the trimmed text before the
\* parenthesis and longname() the trimmed text inside it when the name has the form
\* "<short> (<long>)", and both are the whole folder name when it has no parenthesis
C14_NameParsing ==
    ret.f \in {"Tag.name", "Tag.longname"} =>
        IF HasLongName(fs.folder)
        THEN ret.v = (IF ret.f = "Tag.name" THEN ShortPart(fs.folder)
                      ELSE LongPart(fs.folder))
        ELSE (Occurrences(fs.folder, "(") = 0 /\ Occurrences(fs.folder, ")") = 0)
                => ret.v = fs.folder

\* the events of the operation just performed at which the write of a post page failed
FailedPosts == {i \in 1..Len(trace) : trace[i].op = "fail" /\ trace[i].doc.kind = "post"}

\* C15: when a Post's page cannot be written during Index.render the pass stops
\* there: nothing is rendered or written after the failure (no later post, no tag
\* page, no root document) and the call ends with the error
C15_RenderStops ==
    ret.f = "Index.render" =>
        \A i \in FailedPosts :
            /\ i = Len(trace)
            /\ err = "OSError"
            /\ \A e \in Range(log) : e.doc.kind \in {"post", "tag"}

\* the standalone page of a post that is not the last of Index.posts could not be
\* written, in an Index with tags
C15_Witness ==
    /\ ret.f = "Index.render"
    /\ \E i \in FailedPosts :
          /\ trace[i].doc.tag = None
          /\ trace[i].doc.previous_post # None
          /\ index_tags[ret.self] # <<>>

\* the events of Index.render: those of the home page, the feed and the sitemap,
\* those of a post's standalone page, and those of a tag's render pass
IsRoot(e) == e.doc.kind \in {"index", "feed", "sitemap"}
IsStandalone(e) == e.doc.kind = "post" /\ e.doc.tag = None
IsTagPass(e) == e.doc.kind = "tag" \/ (e.doc.kind = "post" /\ e.doc.tag # None)
Before(P(_), Q(_)) ==
    \A i, j \in 1..Len(trace) : (P(trace[i]) /\ Q(trace[j])) => i < j

\* C16 as stated: in Index.render the home page, the feed and the sitemap are
\* rendered and written only after every post's standalone render and every tag's
\* render pass, and every standalone render precedes every tag's render pass
C16_RootAfterAll ==
    ret.f = "Index.render" =>
        /\ Before(IsStandalone, IsRoot)
        /\ Before(IsTagPass, IsRoot)
        /\ Before(IsStandalone, IsTagPass)

IsRootRender(e) == IsRoot(e) /\ e.op = "render"
IsRootWrite(e) == IsRoot(e) /\ e.op # "render"

\* C16: in Index.render the home page, the feed and the sitemap are rendered before
\* any post or tag is rendered and are written only after every post's standalone
\* render and every tag's render pass; every standalone render precedes every tag's
\* render pass
C16_RootWrittenLast ==
    ret.f = "Index.render" =>
        /\ Before(IsRootRender, IsStandalone)
        /\ Before(IsRootRender, IsTagPass)
        /\ Before(IsStandalone, IsRootWrite)
        /\ Before(IsTagPass, IsRootWrite)
        /\ Before(IsStandalone, IsTagPass)

\* a render of an Index with three posts and a tag, that wrote the three root
\* documents after the pages of the posts and of the tag
C16_Witness ==
    /\ ret.f = "Index.render" /\ err = "none"
    /\ Len(index_posts[ret.self]) = 3
    /\ \E i, j \in 1..Len(trace) : IsTagPass(trace[i]) /\ IsStandalone(trace[j])
    /\ Cardinality({i \in 1..Len(trace) : IsRootWrite(trace[i])}) = 3
    /\ Cardinality({i \in 1..Len(trace) : IsRootRender(trace[i])}) = 3

\* the page lists of the sitemaps written by the operation just performed
Sitemaps == {e.doc.pages : e \in {x \in Range(log) : x.doc.kind = "sitemap"}}

\* page.priority() as the sitemap template calls it
PriorityOf(page) ==
    Body(Cur, IF IsPost(page) THEN "Post.priority"
              ELSE IF ClassOf(page) = "Tag" THEN "Tag.priority" ELSE "Index.priority",
         page).v

\* C17: the page list of the sitemap holds the Index, every Post of Index.posts and
\* every Tag of Index.tags, each exactly once and nothing else, and the priority of
\* the Index is the greatest, above that of every Post, which is above that of
\* every Tag
C17_SitemapPages ==
    ret.f = "Index.render" =>
        \A pages \in Sitemaps :
            /\ Range(pages) = {ret.self} \cup Range(index_posts[ret.self])
                                 \cup Range(index_tags[ret.self])
            /\ \A i, j \in 1..Len(pages) : pages[i] = pages[j] => i = j
            /\ \A p \in Range(pages) : PriorityOf(p) <= PriorityOf(ret.self)
            /\ \A p \in Range(index_posts[ret.self]) :
                    /\ PriorityOf(p) < PriorityOf(ret.self)
                    /\ \A g \in Range(index_tags[ret.self]) : PriorityOf(g) < PriorityOf(p)

\* a sitemap was written for an Index with three posts and two tags
C17_Witness ==
    /\ ret.f = "Index.render"
    /\ Sitemaps # {}
    /\ Len(index_posts[ret.self]) = 3
    /\ Len(index_tags[ret.self]) = 2

\* the verification files written by the operation just performed: name -> content
VerificationWrites ==
    {<<e.path[2], e.doc>> : e \in {x \in Range(log) : x.path \in {<<HTMLDIR, n>> : n \in Range(Verification)}}}

\* C18: a verification file that is not in the template directory is rendered to
\* the empty string, and Index.render of an Index with posts, none of whose tags is
\* empty, with all output files writable, completes and writes the three
\* verification files: the empty string for each absent one
C18_MissingTemplates ==
    ret.f = "Index.render" =>
        /\ \A n \in Range(Verification) \ fs.templates :
               /\ get_template(Cur, n).v = NoText
               /\ TemplateRender(get_template(Cur, n).v, VerificationDocument) = EmptyDocument
        /\ fs.blocked = {} =>
               /\ err = "none"
               /\ VerificationWrites =
                      {<<n, IF n \in fs.templates THEN VerificationDocument
                            ELSE EmptyDocument>> : n \in Range(Verification)}

\* a render that completed with none of the verification files in the template
\* directory
C18_Witness ==
    /\ ret.f = "Index.render" /\ err = "none"
    /\ fs.templates = {}
    /\ Cardinality(VerificationWrites) = 3

\* the lines after the blank lines a list starts with
RECURSIVE SkipBlank(_)
SkipBlank(lines) ==
    IF lines = <<>> \/ Strip(Head(lines)) # <<>> THEN lines ELSE SkipBlank(Tail(lines))

\* the first contiguous run of non-blank lines after the title line, as text
FirstParagraph(lines) == JoinLines(SummaryLines(SkipBlank(Rest(lines))))

\* C19 as stated: the text summary() hands to the converter is the first contiguous
\* run of non-blank lines after the title line and nothing else, also when blank
\* lines stand between the title line and that run
C19_SummaryIsFirstParagraph ==
    (ret.f = "Post.summary" /\ err = "none") =>
        ret.v = md2html(FirstParagraph(post_lines[ret.self]))

\* the posts of a list that were published at the same time stand in the order in
\* which the listing of the folder named them
TiesAsListed(posts, listing) ==
    \A i, j \in 1..Len(posts) :
        (i < j /\ Published(posts[i]) = Published(posts[j]))
            => Find(listing, PathOf(posts[i])) < Find(listing, PathOf(posts[j]))

\* C20: posts with the same publish timestamp keep their discovery order in
\* Index.posts and in the member list of every constructed Tag
C20_TiesKeepOrder ==
    err = "none" =>
        /\ \A index \in Indexes : TiesAsListed(index_posts[index], fs.postdir)
        /\ \A t \in tag_done : TiesAsListed(tag_posts[t], fs.tagfiles[PathOf(t)])

\* two posts of one publish timestamp and a newer post that was listed after them:
\* in an Index and in a Tag of these three, so the sort moved the newer post to the
\* front
HasTie(posts, listing) ==
    /\ Len(posts) = 3
    /\ Published(posts[2]) = Published(posts[3])
    /\ Published(posts[1]) > Published(posts[2])
    /\ Find(listing, PathOf(posts[1])) > Find(listing, PathOf(posts[3]))

C20_Witness ==
    /\ err = "none"
    /\ \E index \in Indexes : HasTie(index_posts[index], fs.postdir)
    /\ \E t \in tag_done : HasTie(tag_posts[t], fs.tagfiles[PathOf(t)])

\* C25 as stated: when the construction of a post has failed with the missing-title
\* error, the Post registry has no entry for the path of that post
C25_RegistryUnchanged ==
    (ret.f = "Post" /\ err = "RuntimeError") => PathOf(ret.self) \notin DOMAIN Post_posts

\* C26 as stated: no two writes of one Index.render go to the same output path
C26_DistinctOutputs ==
    ret.f = "Index.render" =>
        \A i, j \in 1..Len(log) : log[i].path = log[j].path => i = j

\* the position of post p in the post list of an Index (0 when it is not in it)
PositionIn(index, p) == Find(index_posts[index], p)

\* C27 as stated: any two members of a constructed Tag stand in the member list in
\* the order in which they stand in the post list of every Index, where both are
C27_TagOrderIsIndexOrder ==
    err = "none" =>
        \A index \in Indexes : \A t \in Range(index_tags[index]) :
            \A i, j \in 1..Len(tag_posts[t]) :
                i < j => /\ PositionIn(index, tag_posts[t][i]) > 0
                         /\ PositionIn(index, tag_posts[t][i])
                              < PositionIn(index, tag_posts[t][j])

\* the root documents the operation just performed has written
RootDocuments == {e.doc.kind : e \in {x \in Range(log) : x.doc.kind \in {"index", "feed", "sitemap"}}}

\* C28 as stated: Index.render completes and writes the root documents, also for an
\* Index with a tag that has no member
C28_RendersEmptyTag ==
    ret.f = "Index.render" =>
        /\ err = "none"
        /\ RootDocuments = {"index", "feed", "sitemap"}

\* C29 as stated: every member of a Tag of an Index is an element of the post list of
\* that Index
C29_MembersIndexed ==
    err = "none" =>
        \A index \in Indexes : \A t \in Range(index_tags[index]) :
            Range(tag_posts[t]) \subseteq Range(index_posts[index])

\* the Tags whose num_posts() has a stored value
Counted == {t \in Tags : Key("Tag.num_posts", t) \in DOMAIN memo}

\* C30: the stored value of a Tag's num_posts() is the length of the Tag's member
\* list, in every state: num_posts() has not run for a Tag whose folder was still
\* being read, in whatever order the Tags were constructed
C30_NumPostsCurrent ==
    \A t \in Counted : memo[Key("Tag.num_posts", t)] = Len(tag_posts[t])

\* two constructed Tags share a post, one of them has another member as well, and
\* num_posts() has a stored value for both
C30_Witness ==
    \E a, b \in Counted :
        /\ a # b
        /\ {a, b} \subseteq tag_done
        /\ Range(tag_posts[a]) \cap Range(tag_posts[b]) # {}
        /\ Len(tag_posts[a]) >= 2
        /\ Len(tag_posts[b]) = 1


\* the cells of a document that are not marked for exclusion, and the original
\* positions of the cells of a document
Kept(cells) ==
    SelectSeq(cells, LAMBDA c : ~(c.cell_type = "code" /\ c.source # <<>>
                                   /\ Strip(c.source[1]) = <<"#","!">>))
Positions(cells) == [i \in 1..Len(cells) |-> cells[i].metadata]
NotebookPosts == {p \in DOMAIN notebook : ClassOf(p) = "NotebookPost"}
SourceOf(p) == fs.notebooks[PathOf(p)]

\* C21: after the construction of a notebook post its cells are the cells of the
\* source document that are not marked with #!, in their original order, whatever
\* the number and the positions of the marked cells and also with code cells that
\* have no source lines: the construction raises IndexError only when no cell is
\* left or the first cell left has no line to take the title from
C21_MarkedCellsDeleted ==
    \A p \in NotebookPosts :
        /\ Positions(notebook[p].json) = Positions(Kept(SourceOf(p)))
        /\ err = "IndexError" =>
              \/ Kept(SourceOf(p)) = <<>>
              \/ DropBlank(Kept(SourceOf(p))[1].source) = <<>>


\* the plot payloads of the document of a post: cell, output and key of each
PlotEntries(p) ==
    {e \in (1..Len(notebook[p].json)) \X (1..MaxCells) \X {PLOTLY, VEGA} :
        /\ e[2] <= Len(notebook[p].json[e[1]].outputs)
        /\ e[3] \in DOMAIN notebook[p].json[e[1]].outputs[e[2]].data}
DataOf(p, e) == notebook[p].json[e[1]].outputs[e[2]].data
PlotMap(p, key) == IF key = PLOTLY THEN notebook[p].plotly_plots ELSE notebook[p].vega_plots
OtherMap(p, key) == IF key = PLOTLY THEN notebook[p].vega_plots ELSE notebook[p].plotly_plots
PayloadsOf(plots) == {<<plots[tok].kind, plots[tok].spec>> : tok \in DOMAIN plots}
Payloads(p) == PayloadsOf(notebook[p].plotly_plots) \cup PayloadsOf(notebook[p].vega_plots)

\* every payload of the document has a token of its own in the map of its family
TokensRecorded(p) ==
    /\ Cardinality(DOMAIN notebook[p].plotly_plots) + Cardinality(DOMAIN notebook[p].vega_plots)
          = Cardinality(PlotEntries(p))
    /\ \A e \in PlotEntries(p) :
          \E tok \in Range(DataOf(p, e)[PLAIN]) :
              /\ tok \in DOMAIN PlotMap(p, e[3])
              /\ tok \notin DOMAIN OtherMap(p, e[3])
              /\ PlotMap(p, e[3])[tok].kind = e[3]
              /\ PlotMap(p, e[3])[tok].spec = DataOf(p, e)[e[3]]

\* a written page of a post has every payload of the post and no token
PageSubstituted(doc) ==
    /\ \A k \in 1..Len(doc.body) : doc.body[k].kind # "token"
    /\ \A pl \in Payloads(doc.page) :
          \E k \in 1..Len(doc.body) : <<doc.body[k].kind, doc.body[k].spec>> = pl

\* C22: the patch of the plots of a notebook post does not fail; every plot payload
\* of a cell output, of either family, has one token of its own, recorded with the
\* payload in exactly one of the two plot maps; and every page NotebookPost.render
\* has written has every payload and no token
C22_PlotsSubstituted ==
    /\ err # "KeyError"
    /\ err = "none" => \A p \in NotebookPosts : TokensRecorded(p)
    /\ \A f \in DOMAIN html : html[f].page \in NotebookPosts => PageSubstituted(html[f])


\* C23: a construction cls(path) for a path that is registered leaves the instance
\* as it was: its document, math flag and plot maps, its lines and its tag list
C23_ReconstructionKeepsState ==
    [][\A p \in DOMAIN notebook :
          (ret'.f = "Post" /\ ret'.self = ClassCall(PathOf(p)))
              => /\ notebook'[p] = notebook[p]
                 /\ post_lines'[p] = post_lines[p]
                 /\ post_tags'[p] = post_tags[p]]_vars


\* the tokens a converted document shows
TokensIn(content) == {e \in Range(content.outputs) : e.kind = "token"}

\* C24: whatever constructions and content() calls have happened, every token in
\* the stored value of content() of a notebook post is a key of one of the
\* post's plot maps
C24_ContentTokensCurrent ==
    \A p \in DOMAIN notebook :
        Key("Post.content", p) \in DOMAIN memo =>
            TokensIn(memo[Key("Post.content", p)])
                \subseteq DOMAIN notebook[p].plotly_plots \cup DOMAIN notebook[p].vega_plots

====
